---- MODULE Spec2Model ----
(***************************************************************************)
(* Model of the RSA belief engine of rsa_optimal_exp_core.py (World,       *)
(* LiteralSpeaker, LiteralListener, PragmaticSpeaker_obs and the log-space *)
(* helpers) and of the deterministic branch of the static grid search of   *)
(* rsa_optimal_exp_fitting.py.                                             *)
(*                                                                         *)
(* Number representation.  The source keeps probabilities as float64       *)
(* logarithms.  The model keeps the log value v as the exact rational      *)
(* exp(v) = <<numerator, denominator>> in lowest terms, so that            *)
(*    -inf  is  <<0, 1>>,   v + w  is the product,   logsumexp  is the sum *)
(* and  alpha * v  (alpha a positive integer) is the alpha-th power.       *)
(* Floating-point rounding is not modelled.  The theta grid is k/ThetaDen  *)
(* for k = 0..ThetaDen, which contains both boundary values 0 and 1.       *)
(***************************************************************************)
EXTENDS Integers, Sequences, FiniteSets, TLC

(***************************************************************************)
(* Bounds of the model                                                     *)
(***************************************************************************)
\* the sampled Worlds have n >= 1 experiments of m >= 1 sub-trials, n + m <= MaxShape
MaxShape == 3
\* the theta grid is {k / ThetaDen : k \in 0..ThetaDen}
ThetaDen == 2
\* integer seeds are 1..NumSeeds
NumSeeds == 1
\* number of draws a seeded generator may make
MaxDraws == 2
\* a uniform variate of a generator is v / Quant, v \in 0..Quant-1
Quant == 2
\* number of update_and_speak / listen_and_update calls made on one agent
MaxRounds == 2
\* the positive softmax temperatures are 1.0 .. MaxAlpha
MaxAlpha == 1
\* the pragmatic speaker is built on Worlds of at most this many experiments
MaxPragmaticN == 1
\* shape of the utility tables handed to the deterministic softmax
SoftmaxRows == 3
SoftmaxCols == 2
\* tasks (observation sequences) of one utterance generation
NumTasks == 2
\* largest small n_utt_seq
MaxUttSeq == 2
\* length max_T of an observation sequence
SeqLen == 1
\* largest n_jobs
MaxJobs == 2
\* rows (utterances) and columns (observations) of the utility tables of the grid search
GridRows == 3
GridCols == 1
\* length of the sequences the fitting layer evaluates
FitLen == 2
\* largest level of a pragmatic listener
MaxLevel == 3

None == "None"
\* an absent optional integer (seed=None); the integer seed s is <<s>>
NoSeed == <<>>
\* an absent outcome tuple
NoOutcome == <<>>
\* the result of a call: nothing called yet, a returned value, a raised error
NoCall == [status |-> "none"]
Return(v) == [status |-> "ok", value |-> v]
Raise == [status |-> "error"]
\* no agent object, no softmax call
NoObject == [kind |-> None]

(***************************************************************************)
(* Exact rationals                                                         *)
(***************************************************************************)
RECURSIVE GCD(_, _)
GCD(a, b) == IF b = 0 THEN a ELSE GCD(b, a % b)

Rat(a, b) == IF a = 0 THEN <<0, 1>> ELSE LET g == GCD(a, b) IN <<a \div g, b \div g>>
RZero == <<0, 1>>
ROne == <<1, 1>>
\* sums, products and comparisons cancel common factors before multiplying
RAdd(x, y) ==
    LET g == GCD(x[2], y[2])
    IN Rat(x[1] * (y[2] \div g) + y[1] * (x[2] \div g), (x[2] \div g) * y[2])
RMul(x, y) ==
    IF x[1] = 0 \/ y[1] = 0 THEN <<0, 1>>
    ELSE LET g1 == GCD(x[1], y[2])
             g2 == GCD(y[1], x[2])
         IN <<(x[1] \div g1) * (y[1] \div g2), (x[2] \div g2) * (y[2] \div g1)>>
RDiv(x, y) == RMul(x, <<y[2], y[1]>>)
RLess(x, y) ==
    LET g == GCD(x[2], y[2]) IN x[1] * (y[2] \div g) < y[1] * (x[2] \div g)
RLeq(x, y) ==
    LET g == GCD(x[2], y[2]) IN x[1] * (y[2] \div g) <= y[1] * (x[2] \div g)

RECURSIVE RPow(_, _)
RPow(x, k) == IF k = 0 THEN ROne ELSE RMul(x, RPow(x, k - 1))

RECURSIVE RSumSeq(_)
RSumSeq(s) == IF s = <<>> THEN RZero ELSE RAdd(Head(s), RSumSeq(Tail(s)))

RECURSIVE RSumOver(_, _)
\* sum of f[x] over the finite set S
RSumOver(f, S) ==
    IF S = {} THEN RZero
    ELSE LET x == CHOOSE y \in S : TRUE IN RAdd(f[x], RSumOver(f, S \ {x}))

RECURSIVE RMaxOver(_, _)
\* largest f[x] over the non-empty finite set S
RMaxOver(f, S) ==
    LET x == CHOOSE y \in S : TRUE
    IN IF S = {x} THEN f[x]
       ELSE LET r == RMaxOver(f, S \ {x}) IN IF RLess(r, f[x]) THEN f[x] ELSE r

RECURSIVE Fact(_)
Fact(k) == IF k = 0 THEN 1 ELSE k * Fact(k - 1)

RECURSIVE Binom(_, _)
\* the binomial coefficient, by Pascal's rule (no factorial of N is formed)
Binom(N, s) == IF s = 0 \/ s = N THEN 1 ELSE Binom(N - 1, s - 1) + Binom(N - 1, s)

RECURSIVE Dot(_, _)
\* dot product of two integer sequences of equal length
Dot(a, b) == IF a = <<>> THEN 0 ELSE Head(a) * Head(b) + Dot(Tail(a), Tail(b))

SeqToSet(s) == {s[i] : i \in 1..Len(s)}

(***************************************************************************)
(* World                                                                   *)
(***************************************************************************)
QUANTIFIERS == <<"all", "most", "some", "no">>
PREDICATES == <<"successful", "unsuccessful">>

\* variant of SEMANTIC_OPERATORS in which "some" needs more than one
SEMANTIC_OPERATORS_some_plural(q, x, N) ==
    CASE q = "all" -> IF x = N THEN 1 ELSE 0
      [] q = "most" -> IF 2 * x > N THEN 1 ELSE 0
      [] q = "some" -> IF x > 1 THEN 1 ELSE 0
      [] q = "no" -> IF x = 0 THEN 1 ELSE 0

\* World.SEMANTIC_OPERATORS, as 0/1 integers
SEMANTIC_OPERATORS(q, x, N) ==
    CASE q = "all" -> IF x = N THEN 1 ELSE 0
      [] q = "most" -> IF 2 * x > N THEN 1 ELSE 0
      [] q = "some" -> IF x >= 1 THEN 1 ELSE 0
      [] q = "no" -> IF x = 0 THEN 1 ELSE 0

\* the theta grid: numerators k of theta = k / ThetaDen, in increasing order
theta_values == [i \in 1..(ThetaDen + 1) |-> Rat(i - 1, ThetaDen)]
ThetaIdx == 1..(ThetaDen + 1)

RECURSIVE combinations(_, _, _)
\* itertools.combinations(range(lo, hi), k): the increasing k-tuples over
\* lo..hi-1 in lexicographic order
combinations(lo, hi, k) ==
    IF k = 0 THEN <<(<<>>)>>
    ELSE IF hi - lo < k THEN <<>>
    ELSE LET rest == combinations(lo + 1, hi, k - 1)
             with == [i \in 1..Len(rest) |-> <<lo>> \o rest[i]]
         IN with \o combinations(lo + 1, hi, k)

\* the counts of one stars-and-bars divider tuple
dividers_to_counts(dividers, n, m) ==
    [j \in 1..(m + 1) |->
        IF j = m + 1 THEN n + m - (IF m = 0 THEN -1 ELSE dividers[m]) - 1
        ELSE dividers[j] - (IF j = 1 THEN -1 ELSE dividers[j - 1]) - 1]

\* variant of generate_outcome_tuples whose dividers range over n + m - 1
\* positions
generate_outcome_tuples_short(n, m) ==
    LET cs == combinations(0, n + m - 1, m)
    IN [i \in 1..Len(cs) |-> dividers_to_counts(cs[i], n, m)]

generate_outcome_tuples(n, m) ==
    LET cs == combinations(0, n + m, m)
    IN [i \in 1..Len(cs) |-> dividers_to_counts(cs[i], n, m)]

generate_possible_outcomes(n, m) == generate_outcome_tuples(n, m)

\* log P(S = s | theta), rows s = 0..n*m, columns the theta grid
compute_successes_log_likelihoods(n, m) ==
    LET N == n * m
    IN [s \in 0..N |-> [t \in ThetaIdx |->
          LET k == t - 1
          IN IF k = 0 THEN (IF s = 0 THEN ROne ELSE RZero)
             ELSE IF k = ThetaDen THEN (IF s = N THEN ROne ELSE RZero)
             ELSE Rat(Binom(N, s) * RPow(<<k, 1>>, s)[1]
                        * RPow(<<ThetaDen - k, 1>>, N - s)[1],
                      RPow(<<ThetaDen, 1>>, N)[1])]]

RECURSIVE ProdFact(_)
ProdFact(counts) == IF counts = <<>> THEN 1 ELSE Fact(Head(counts)) * ProdFact(Tail(counts))

RECURSIVE ProdTerms(_, _, _, _)
\* prod_j term_j ^ counts_j, term_j = C(m,j) theta^j (1-theta)^(m-j), j from j0
ProdTerms(counts, j0, m, k) ==
    IF j0 > m THEN ROne
    ELSE LET term == Rat(Binom(m, j0) * RPow(<<k, 1>>, j0)[1]
                            * RPow(<<ThetaDen - k, 1>>, m - j0)[1],
                         RPow(<<ThetaDen, 1>>, m)[1])
         IN RMul(RPow(term, counts[j0 + 1]), ProdTerms(counts, j0 + 1, m, k))

\* log P(outcome | theta), rows the outcome tuples, columns the theta grid
compute_observation_log_likelihoods(n, m, possible_outcomes) ==
    [o \in SeqToSet(possible_outcomes) |-> [t \in ThetaIdx |->
        LET k == t - 1
        IN IF k = 0 THEN (IF o[1] = n THEN ROne ELSE RZero)
           ELSE IF k = ThetaDen THEN (IF o[m + 1] = n THEN ROne ELSE RZero)
           ELSE RMul(Rat(Fact(n), ProdFact(o)), ProdTerms(o, 0, m, k))]]

\* the utterance strings: "q,p" for n = 1 and "q1,q2,p" for n > 1
generate_utterance(n) ==
    IF n > 1
    THEN {QUANTIFIERS[a] \o "," \o QUANTIFIERS[b] \o "," \o PREDICATES[c] :
             a \in 1..4, b \in 1..4, c \in 1..2}
    ELSE {QUANTIFIERS[a] \o "," \o PREDICATES[c] : a \in 1..4, c \in 1..2}

\* the tokens of an utterance string: <<q1, q2, p>>, q1 = None when n = 1
UtterTokens(n, u) ==
    IF n > 1
    THEN CHOOSE t \in {<<QUANTIFIERS[a], QUANTIFIERS[b], PREDICATES[c]>> :
                          a \in 1..4, b \in 1..4, c \in 1..2} :
             u = t[1] \o "," \o t[2] \o "," \o t[3]
    ELSE CHOOSE t \in {<<None, QUANTIFIERS[a], PREDICATES[c]>> : a \in 1..4, c \in 1..2} :
             u = t[2] \o "," \o t[3]

\* variant of truth_vals whose outer quantifier counts out of m
truth_vals_outer_m(n, m, u, counts) ==
    LET t == UtterTokens(n, u)
        vec == [i \in 1..(m + 1) |->
                  IF t[3] = "successful"
                  THEN SEMANTIC_OPERATORS(t[2], i - 1, m)
                  ELSE SEMANTIC_OPERATORS(t[2], m - (i - 1), m)]
        inner_sum == Dot(counts, vec)
    IN IF n = 1 THEN inner_sum ELSE SEMANTIC_OPERATORS(t[1], inner_sum, m)

\* truth value of one utterance for one outcome tuple
truth_vals(n, m, u, counts) ==
    LET t == UtterTokens(n, u)
        vec == [i \in 1..(m + 1) |->
                  IF t[3] = "successful"
                  THEN SEMANTIC_OPERATORS(t[2], i - 1, m)
                  ELSE SEMANTIC_OPERATORS(t[2], m - (i - 1), m)]
        inner_sum == Dot(counts, vec)
    IN IF n = 1 THEN inner_sum ELSE SEMANTIC_OPERATORS(t[1], inner_sum, n)

\* the truth table (rows utterances, columns outcomes) and the outcomes that
\* no utterance covers
compute_utterance_truth_values(n, m, counts_list) ==
    LET df == [u \in generate_utterance(n) |->
                 [o \in SeqToSet(counts_list) |-> truth_vals(n, m, u, o)]]
        uncovered == {o \in SeqToSet(counts_list) :
                         \A u \in generate_utterance(n) : df[u][o] = 0}
    IN [df |-> df, uncovered |-> uncovered]

\* World.__init__: the object after construction; failed is TRUE when the
\* constructor raises
WorldNew(n, m) ==
    LET outcomes == generate_possible_outcomes(n, m)
        tt == compute_utterance_truth_values(n, m, outcomes)
    IN [n |-> n, m |-> m,
        theta_values |-> theta_values,
        possible_outcomes |-> outcomes,
        suc_log_likelihood_theta |-> compute_successes_log_likelihoods(n, m),
        obs_log_likelihood_theta |-> compute_observation_log_likelihoods(n, m, outcomes),
        utterance_truth |-> tt.df,
        failed |-> tt.uncovered # {},
        has_cached_rng |-> FALSE,
        cached_seed |-> NoSeed,
        cached_rng |-> [seed |-> NoSeed, pos |-> 0]]

\* World.utterances and World.observations
utterances(w) == DOMAIN w.utterance_truth
observations(w) == DOMAIN w.obs_log_likelihood_theta


(***************************************************************************)
(* Log-space helpers.  A matrix is a function row -> (column -> value);     *)
(* rows(M) and cols(M) are its index sets.                                 *)
(***************************************************************************)
\* the function f as an explicit table: comparing f evaluates every f[x] once,
\* and applications of the result look the values up instead of recomputing them
tabulate(f) == IF f = f THEN f ELSE f

rows(M) == DOMAIN M
cols(M) == DOMAIN M[CHOOSE r \in DOMAIN M : TRUE]
transpose(M) == tabulate([c \in cols(M) |-> [r \in rows(M) |-> M[r][c]]])
\* a vector v as a one-column matrix (v[:, None])
column(v) == tabulate([r \in DOMAIN v |-> [c \in {1} |-> v[r]]])

\* LC[i,j] = log sum_s exp(LA[i,s] + LB[s,j])
log_M_product(LA, LB) ==
    tabulate([i \in rows(LA) |-> [j \in cols(LB) |->
        RSumOver([s \in rows(LB) |-> RMul(LA[i][s], LB[s][j])], rows(LB))]])

\* the columns of LX whose entries are all -inf
all_neg_inf_cols(LX) == {j \in cols(LX) : \A i \in rows(LX) : LX[i][j] = RZero}

\* LX[i,j] - logsumexp(LX[:,j]); an all -inf column is warned about and left
\* as it is (its log column sum is replaced by 0)
log_column_normalize(LX) ==
    LET log_col_sums == tabulate([j \in cols(LX) |->
                            RSumOver([s \in rows(LX) |-> LX[s][j]], rows(LX))])
    IN tabulate([i \in rows(LX) |-> [j \in cols(LX) |->
          IF log_col_sums[j] = RZero THEN LX[i][j]
          ELSE RDiv(LX[i][j], log_col_sums[j])]])

\* alpha is "determ" or a positive float: [determ |-> TRUE] or
\* [determ |-> FALSE, value |-> a] with a a positive integer
DETERM == [determ |-> TRUE]
Alpha(a) == [determ |-> FALSE, value |-> a]

\* variant of log_column_softmax whose softmax branch does not reject an
\* all -inf column and gives it probability 0 everywhere
log_column_softmax_lenient(X, alpha) ==
    IF alpha.determ /\ all_neg_inf_cols(X) # {}
    THEN [raised |-> TRUE]
    ELSE IF alpha.determ
    THEN LET col_max == tabulate([j \in cols(X) |->
                            RMaxOver([i \in rows(X) |-> X[i][j]], rows(X))])
             mask == tabulate([i \in rows(X) |-> [j \in cols(X) |-> X[i][j] = col_max[j]]])
             counts == tabulate([j \in cols(X) |-> Cardinality({i \in rows(X) : mask[i][j]})])
         IN [raised |-> FALSE,
             log_prob |-> tabulate([i \in rows(X) |-> [j \in cols(X) |->
                             IF mask[i][j] THEN Rat(1, counts[j]) ELSE RZero]])]
    ELSE LET scaled == tabulate([i \in rows(X) |-> [j \in cols(X) |->
                            RPow(X[i][j], alpha.value)]])
             sums == tabulate([j \in cols(X) |->
                            RSumOver([s \in rows(X) |-> scaled[s][j]], rows(X))])
         IN [raised |-> FALSE,
             log_prob |-> tabulate([i \in rows(X) |-> [j \in cols(X) |->
                             IF sums[j] = RZero THEN RZero
                             ELSE RDiv(scaled[i][j], sums[j])]])]

\* the column softmax (alpha a float) or argmax with equal split of ties
\* (alpha = "determ"); raised is TRUE when the function raises ValueError
\* because some column is all -inf
log_column_softmax(X, alpha) ==
    IF all_neg_inf_cols(X) # {}
    THEN [raised |-> TRUE]
    ELSE IF alpha.determ
    THEN LET col_max == tabulate([j \in cols(X) |->
                            RMaxOver([i \in rows(X) |-> X[i][j]], rows(X))])
             mask == tabulate([i \in rows(X) |-> [j \in cols(X) |-> X[i][j] = col_max[j]]])
             counts == tabulate([j \in cols(X) |-> Cardinality({i \in rows(X) : mask[i][j]})])
         IN [raised |-> FALSE,
             log_prob |-> tabulate([i \in rows(X) |-> [j \in cols(X) |->
                             IF mask[i][j] THEN Rat(1, counts[j]) ELSE RZero]])]
    ELSE LET scaled == tabulate([i \in rows(X) |-> [j \in cols(X) |->
                            RPow(X[i][j], alpha.value)]])
             sums == tabulate([j \in cols(X) |->
                            RSumOver([s \in rows(X) |-> scaled[s][j]], rows(X))])
         IN [raised |-> FALSE,
             log_prob |-> tabulate([i \in rows(X) |-> [j \in cols(X) |->
                             RDiv(scaled[i][j], sums[j])]])]

(***************************************************************************)
(* LiteralSpeaker                                                          *)
(***************************************************************************)
\* initial_beliefs_theta = None
NoPrior == <<>>

\* _process_initial_beliefs of LiteralSpeaker and of LiteralListener (the
\* same code): the log-prior, or raised when validation fails
process_initial_beliefs(initial_beliefs_theta, w) ==
    LET n_theta == Len(w.theta_values)
    IN IF initial_beliefs_theta = NoPrior
       THEN [raised |-> FALSE, belief |-> [t \in 1..n_theta |-> Rat(1, n_theta)]]
       ELSE IF Len(initial_beliefs_theta) # n_theta
       THEN [raised |-> TRUE]
       ELSE IF \E t \in 1..n_theta : \/ RLess(initial_beliefs_theta[t], RZero)
                                     \/ RLess(ROne, initial_beliefs_theta[t])
       THEN [raised |-> TRUE]
       ELSE IF RSumSeq(initial_beliefs_theta) # ROne
       THEN [raised |-> TRUE]
       ELSE [raised |-> FALSE, belief |-> initial_beliefs_theta]

\* LiteralSpeaker._compute_utterance_log_prob_obs: uniform over the true utterances
LiteralSpeaker_compute_utterance_log_prob_obs(utterance_truth) ==
    LET true_counts == tabulate([o \in cols(utterance_truth) |->
            Cardinality({u \in rows(utterance_truth) : utterance_truth[u][o] # 0})])
    IN tabulate([u \in rows(utterance_truth) |-> [o \in cols(utterance_truth) |->
          IF utterance_truth[u][o] # 0 THEN Rat(1, true_counts[o]) ELSE RZero]])

\* LiteralSpeaker.__init__
LiteralSpeaker_new(w, initial_beliefs_theta) ==
    LET b == process_initial_beliefs(initial_beliefs_theta, w)
    IN IF b.raised THEN [raised |-> TRUE]
       ELSE [raised |-> FALSE,
             obj |-> [un_current_log_belief |-> b.belief,
                      utterance_log_prob_obs |->
                          LiteralSpeaker_compute_utterance_log_prob_obs(w.utterance_truth)]]

\* variant of the success count that counts the experiments
successes_unweighted(observation, m) == Dot(observation, [i \in 1..(m + 1) |-> 1])

\* total successes S = sum_j j * n_j
successes(observation, m) == Dot(observation, [i \in 1..(m + 1) |-> i - 1])

\* variant of LiteralSpeaker.update_and_speak that draws from all utterances
LiteralSpeaker_update_and_speak_any(self, w, observation) ==
    IF observation \notin observations(w)
    THEN [obj |-> self, raised |-> TRUE, returns |-> {}]
    ELSE LET log_lik == w.suc_log_likelihood_theta[successes(observation, w.m)]
             belief == tabulate([t \in DOMAIN self.un_current_log_belief |->
                            RMul(self.un_current_log_belief[t], log_lik[t])])
         IN [obj |-> [self EXCEPT !.un_current_log_belief = belief],
             raised |-> FALSE, returns |-> utterances(w)]

\* variant of LiteralSpeaker.update_and_speak without the validation of the
\* observation: the belief is updated from the tuple's success count before
\* the lookup of the unknown observation fails
LiteralSpeaker_update_and_speak_unvalidated(self, w, observation) ==
    LET log_lik == w.suc_log_likelihood_theta[successes(observation, w.m)]
        belief == tabulate([t \in DOMAIN self.un_current_log_belief |->
                       RMul(self.un_current_log_belief[t], log_lik[t])])
        updated == [self EXCEPT !.un_current_log_belief = belief]
        uttrs_true == IF observation \in observations(w)
                      THEN {u \in utterances(w) : w.utterance_truth[u][observation] = 1}
                      ELSE {}
    IN IF uttrs_true = {}
       THEN [obj |-> updated, raised |-> TRUE, returns |-> {}]
       ELSE [obj |-> updated, raised |-> FALSE, returns |-> uttrs_true]

\* LiteralSpeaker.update_and_speak: the object after the call, whether the
\* call raised, and the utterances it can return
LiteralSpeaker_update_and_speak(self, w, observation) ==
    IF observation \notin observations(w)
    THEN [obj |-> self, raised |-> TRUE, returns |-> {}]
    ELSE LET log_lik == w.suc_log_likelihood_theta[successes(observation, w.m)]
             belief == tabulate([t \in DOMAIN self.un_current_log_belief |->
                            RMul(self.un_current_log_belief[t], log_lik[t])])
             updated == [self EXCEPT !.un_current_log_belief = belief]
             uttrs_true == {u \in utterances(w) : w.utterance_truth[u][observation] = 1}
         IN IF uttrs_true = {}
            THEN [obj |-> updated, raised |-> TRUE, returns |-> {}]
            ELSE [obj |-> updated, raised |-> FALSE, returns |-> uttrs_true]

\* current_belief_theta of every agent: normalize and exponentiate
current_belief_theta(un_current_log_belief) ==
    LET normalized == log_column_normalize(column(un_current_log_belief))
    IN tabulate([t \in DOMAIN un_current_log_belief |-> normalized[t][1]])

(***************************************************************************)
(* LiteralListener                                                         *)
(***************************************************************************)
\* log P(u | theta) = log sum_O P(u | O) P(O | theta)
compute_utterance_log_likelihood_theta(utterance_log_prob_obs, obs_log_likelihood_theta) ==
    log_M_product(utterance_log_prob_obs, obs_log_likelihood_theta)

\* (log P(u | theta) + log-belief).T : rows theta, columns utterances
compute_theta_log_post_utterance(utterance_log_likelihood_theta, un_current_log_belief) ==
    transpose(tabulate([u \in rows(utterance_log_likelihood_theta) |->
                 [t \in cols(utterance_log_likelihood_theta) |->
                     RMul(utterance_log_likelihood_theta[u][t], un_current_log_belief[t])]]))

\* LiteralListener.__init__
LiteralListener_new(w, initial_beliefs_theta) ==
    LET b == process_initial_beliefs(initial_beliefs_theta, w)
        speaker == LiteralSpeaker_new(w, initial_beliefs_theta)
        ull == compute_utterance_log_likelihood_theta(speaker.obj.utterance_log_prob_obs,
                                                      w.obs_log_likelihood_theta)
    IN IF b.raised \/ speaker.raised THEN [raised |-> TRUE]
       ELSE [raised |-> FALSE,
             obj |-> [un_current_log_belief |-> b.belief,
                      literal_speaker |-> speaker.obj,
                      utterance_log_likelihood_theta |-> ull,
                      theta_log_post_utterance |->
                          compute_theta_log_post_utterance(ull, b.belief)]]

\* variant of LiteralListener.listen_and_update that keeps the old posterior table
LiteralListener_listen_and_update_stale(self, w, utterance) ==
    IF utterance \notin utterances(w)
    THEN [obj |-> self, raised |-> TRUE]
    ELSE [obj |-> [self EXCEPT !.un_current_log_belief =
                      tabulate([t \in rows(self.theta_log_post_utterance) |->
                                   self.theta_log_post_utterance[t][utterance]])],
          raised |-> FALSE]

\* variant of LiteralListener.listen_and_update that replaces the belief by
\* the likelihood row of the utterance
LiteralListener_listen_and_update_forgetful(self, w, utterance) ==
    IF utterance \notin utterances(w)
    THEN [obj |-> self, raised |-> TRUE]
    ELSE LET belief == tabulate([t \in rows(self.theta_log_post_utterance) |->
                           self.utterance_log_likelihood_theta[utterance][t]])
         IN [obj |-> [self EXCEPT
                        !.un_current_log_belief = belief,
                        !.theta_log_post_utterance =
                            compute_theta_log_post_utterance(
                                self.utterance_log_likelihood_theta, belief)],
             raised |-> FALSE]

\* LiteralListener.listen_and_update: the object after the call and whether
\* the call raised
LiteralListener_listen_and_update(self, w, utterance) ==
    IF utterance \notin utterances(w)
    THEN [obj |-> self, raised |-> TRUE]
    ELSE LET belief == tabulate([t \in rows(self.theta_log_post_utterance) |->
                           self.theta_log_post_utterance[t][utterance]])
         IN [obj |-> [self EXCEPT
                        !.un_current_log_belief = belief,
                        !.theta_log_post_utterance =
                            compute_theta_log_post_utterance(
                                self.utterance_log_likelihood_theta, belief)],
             raised |-> FALSE]

(***************************************************************************)
(* PragmaticSpeaker_obs                                                    *)
(***************************************************************************)
VALID_OMEGA_TYPES == {"coop", "strat"}
VALID_PSI_TYPES == {"inf", "pers+", "pers-"}

\* _compute_log_informativeness: the unnormalized log P(O) and log P_L0(O | u)
compute_log_informativeness(obs_log_likelihood_theta, un_current_log_belief, utterance_log_prob_obs) ==
    LET prob_O == log_M_product(obs_log_likelihood_theta, column(un_current_log_belief))
        unnormalized_log_prob_O == tabulate([o \in rows(prob_O) |-> prob_O[o][1]])
        unnormalized_obs_log_post_utterance ==
            transpose(tabulate([u \in rows(utterance_log_prob_obs) |->
                         [o \in cols(utterance_log_prob_obs) |->
                             RMul(utterance_log_prob_obs[u][o], unnormalized_log_prob_O[o])]]))
    IN [unnormalized_log_prob_O |-> unnormalized_log_prob_O,
        log_informativeness |->
            transpose(log_column_normalize(unnormalized_obs_log_post_utterance))]

\* the two tables of _compute_log_persuasiveness, given the normalized
\* posterior table post = log P(theta | u)
log_persuasiveness_of(psi, w, post) ==
    LET log_theta_values == tabulate([c \in {1} |-> [t \in rows(post) |-> w.theta_values[t]]])
        log_one_minus_theta_values ==
            tabulate([c \in {1} |-> [t \in rows(post) |->
                RAdd(ROne, <<-(w.theta_values[t][1]), w.theta_values[t][2]>>)]])
        values == CASE psi = "pers+" -> log_M_product(log_theta_values, post)[1]
                    [] psi = "pers-" -> log_M_product(log_one_minus_theta_values, post)[1]
                    [] OTHER -> [u \in cols(post) |-> ROne]
    IN [theta_log_expectation_utterance |-> log_M_product(log_theta_values, post)[1],
        log_persuasiveness |-> tabulate([u \in utterances(w) |->
                                  [o \in SeqToSet(w.possible_outcomes) |-> values[u]]])]

\* _compute_log_persuasiveness: log E[theta | u] and the persuasiveness table
compute_log_persuasiveness(psi, w, theta_log_post_utterance) ==
    log_persuasiveness_of(psi, w, log_column_normalize(theta_log_post_utterance))

\* the weights beta the model can represent exactly: beta * inf + (1 - beta) *
\* pers is the log of a rational only for beta = 0 and beta = 1
Betas == {0, 1}

\* variant of combine_utility without the literal-truth mask
combine_utility_unmasked(self, w, psi, beta, inf, pers) ==
    [obj |-> [self EXCEPT
                 !.unnormalized_log_prob_O = inf.unnormalized_log_prob_O,
                 !.log_informativeness = inf.log_informativeness,
                 !.theta_log_expectation_utterance = pers.theta_log_expectation_utterance,
                 !.log_persuasiveness = pers.log_persuasiveness],
     util |-> IF psi = "inf" THEN inf.log_informativeness ELSE pers.log_persuasiveness]

\* the body of _compute_utility after its two tables inf and pers have been
\* computed: the attributes it assigns and the masked utility it returns
combine_utility(self, w, psi, beta, inf, pers) ==
    LET util == IF psi = "inf" THEN inf.log_informativeness
                ELSE IF beta = 0 THEN pers.log_persuasiveness
                ELSE tabulate([u \in utterances(w) |-> [o \in observations(w) |->
                        IF \/ inf.log_informativeness[u][o] = RZero
                           \/ pers.log_persuasiveness[u][o] = RZero
                        THEN RZero
                        ELSE RMul(RPow(inf.log_informativeness[u][o], beta),
                                  RPow(pers.log_persuasiveness[u][o], 1 - beta))]])
    IN [obj |-> [self EXCEPT
                    !.unnormalized_log_prob_O = inf.unnormalized_log_prob_O,
                    !.log_informativeness = inf.log_informativeness,
                    !.theta_log_expectation_utterance = pers.theta_log_expectation_utterance,
                    !.log_persuasiveness = pers.log_persuasiveness],
        util |-> tabulate([u \in utterances(w) |-> [o \in observations(w) |->
                    IF w.utterance_truth[u][o] = 0 THEN RZero ELSE util[u][o]]])]

\* _compute_utility: the attributes it assigns and the utility it returns
compute_utility(self, w, psi, beta) ==
    combine_utility(self, w, psi, beta,
        compute_log_informativeness(
            w.obs_log_likelihood_theta,
            self.literal_listener.un_current_log_belief,
            self.literal_listener.literal_speaker.utterance_log_prob_obs),
        compute_log_persuasiveness(
            psi, w, self.literal_listener.theta_log_post_utterance))

\* the softmax step of _compute_utterance_log_prob_obs, cu being the result
\* of _compute_utility
softmax_of_utility(cu, sm) ==
    IF sm.raised
    THEN [obj |-> [cu.obj EXCEPT !.utility = cu.util], raised |-> TRUE]
    ELSE [obj |-> [cu.obj EXCEPT !.utility = cu.util], raised |-> FALSE,
          table |-> sm.log_prob]

\* the utility, stored in self.utility, and its column softmax
utterance_log_prob_obs_of(cu, alpha) ==
    softmax_of_utility(cu, log_column_softmax(cu.util, alpha))

\* PragmaticSpeaker_obs._compute_utterance_log_prob_obs: self.utility is
\* assigned before the softmax; the table is returned unless the softmax raises
PragmaticSpeaker_compute_utterance_log_prob_obs(self, w, alpha) ==
    utterance_log_prob_obs_of(compute_utility(self, w, self.psi, self.beta), alpha)

\* an attribute that has not been assigned yet
Unset == <<>>

\* variant of PragmaticSpeaker_obs.__init__ that warns about the cooperative
\* speaker's psi but stores the requested one
PragmaticSpeaker_new_unforced(w, omega, psi, update_internal, alpha, beta, initial_beliefs_theta) ==
    IF omega \notin VALID_OMEGA_TYPES \/ psi \notin VALID_PSI_TYPES
    THEN [raised |-> TRUE, warning |-> None]
    ELSE LET forced == omega = "coop" /\ psi # "inf"
             speaker == LiteralSpeaker_new(w, initial_beliefs_theta)
             listener == LiteralListener_new(w, initial_beliefs_theta)
             warning == IF forced THEN "psi is forced to inf" ELSE None
         IN IF speaker.raised \/ listener.raised
            THEN [raised |-> TRUE, warning |-> warning]
            ELSE LET self == [omega |-> omega,
                              psi |-> psi,
                              alpha |-> alpha, beta |-> beta,
                              update_internal |-> update_internal,
                              literal_speaker |-> speaker.obj,
                              literal_listener |-> listener.obj,
                              unnormalized_log_prob_O |-> Unset,
                              log_informativeness |-> Unset,
                              theta_log_expectation_utterance |-> Unset,
                              log_persuasiveness |-> Unset,
                              utility |-> Unset,
                              utterance_log_prob_obs |-> Unset]
                     c == PragmaticSpeaker_compute_utterance_log_prob_obs(self, w, alpha)
                 IN IF c.raised THEN [raised |-> TRUE, warning |-> warning]
                    ELSE [raised |-> FALSE, warning |-> warning,
                          obj |-> [c.obj EXCEPT !.utterance_log_prob_obs = c.table]]

\* PragmaticSpeaker_obs.__init__
PragmaticSpeaker_new(w, omega, psi, update_internal, alpha, beta, initial_beliefs_theta) ==
    IF omega \notin VALID_OMEGA_TYPES \/ psi \notin VALID_PSI_TYPES
    THEN [raised |-> TRUE, warning |-> None]
    ELSE LET forced == omega = "coop" /\ psi # "inf"
             speaker == LiteralSpeaker_new(w, initial_beliefs_theta)
             listener == LiteralListener_new(w, initial_beliefs_theta)
             warning == IF forced THEN "psi is forced to inf" ELSE None
         IN IF speaker.raised \/ listener.raised
            THEN [raised |-> TRUE, warning |-> warning]
            ELSE LET self == [omega |-> omega,
                              psi |-> IF forced THEN "inf" ELSE psi,
                              alpha |-> alpha, beta |-> beta,
                              update_internal |-> update_internal,
                              literal_speaker |-> speaker.obj,
                              literal_listener |-> listener.obj,
                              unnormalized_log_prob_O |-> Unset,
                              log_informativeness |-> Unset,
                              theta_log_expectation_utterance |-> Unset,
                              log_persuasiveness |-> Unset,
                              utility |-> Unset,
                              utterance_log_prob_obs |-> Unset]
                     c == PragmaticSpeaker_compute_utterance_log_prob_obs(self, w, alpha)
                 IN IF c.raised THEN [raised |-> TRUE, warning |-> warning]
                    ELSE [raised |-> FALSE, warning |-> warning,
                          obj |-> [c.obj EXCEPT !.utterance_log_prob_obs = c.table]]

\* what update_and_speak does after the utterance u has been drawn, self
\* already holding the updated literal speaker
\* variant of the internal update that ignores update_internal
PragmaticSpeaker_after_choice_always(self, w, u) ==
    LET heard == LiteralListener_listen_and_update(self.literal_listener, w, u)
        listened == [self EXCEPT !.literal_listener = heard.obj]
        c == PragmaticSpeaker_compute_utterance_log_prob_obs(listened, w, self.alpha)
    IN IF heard.raised THEN [obj |-> listened, raised |-> TRUE]
       ELSE IF c.raised THEN [obj |-> c.obj, raised |-> TRUE]
       ELSE [obj |-> [c.obj EXCEPT !.utterance_log_prob_obs = c.table],
             raised |-> FALSE, value |-> u]

PragmaticSpeaker_after_choice(self, w, u) ==
    IF ~self.update_internal
    THEN [obj |-> self, raised |-> FALSE, value |-> u]
    ELSE LET heard == LiteralListener_listen_and_update(self.literal_listener, w, u)
             listened == [self EXCEPT !.literal_listener = heard.obj]
             c == PragmaticSpeaker_compute_utterance_log_prob_obs(listened, w, self.alpha)
         IN IF heard.raised THEN [obj |-> listened, raised |-> TRUE]
            ELSE IF c.raised THEN [obj |-> c.obj, raised |-> TRUE]
            ELSE [obj |-> [c.obj EXCEPT !.utterance_log_prob_obs = c.table],
                  raised |-> FALSE, value |-> u]

\* PragmaticSpeaker_obs.update_and_speak: the possible results [obj, raised,
\* value], one for every utterance np.random.choice can draw
\* variant of PragmaticSpeaker_obs.update_and_speak that feeds the literal
\* speaker only when update_internal is set
PragmaticSpeaker_update_and_speak_internal_only(self, w, observation) ==
    LET spoken == LiteralSpeaker_update_and_speak(self.literal_speaker, w, observation)
        updated == IF self.update_internal THEN [self EXCEPT !.literal_speaker = spoken.obj]
                   ELSE self
    IN IF spoken.raised
       THEN {[obj |-> updated, raised |-> TRUE]}
       ELSE {PragmaticSpeaker_after_choice(updated, w, u) :
                u \in {x \in utterances(w) :
                          self.utterance_log_prob_obs[x][observation] # RZero}}

PragmaticSpeaker_update_and_speak(self, w, observation) ==
    LET spoken == LiteralSpeaker_update_and_speak(self.literal_speaker, w, observation)
        updated == [self EXCEPT !.literal_speaker = spoken.obj]
    IN IF spoken.raised
       THEN {[obj |-> updated, raised |-> TRUE]}
       ELSE {PragmaticSpeaker_after_choice(updated, w, u) :
                u \in {x \in utterances(w) :
                          self.utterance_log_prob_obs[x][observation] # RZero}}

(***************************************************************************)
(* PragmaticListener_obs_n                                                 *)
(***************************************************************************)
PSI_TYPES == <<"pers-", "inf", "pers+">>

\* the names bound at module level in rsa_optimal_exp_core.py: its imports,
\* its one module constant, its three functions and its five classes.  A
\* method that looks up any other global name raises NameError.
core_globals ==
    {"math", "warnings", "itertools", "List", "Dict", "Union", "Optional", "Tuple",
     "TypeVar", "Iterator", "Callable", "Any", "Literal", "np", "pd", "xr",
     "gammaln", "logsumexp", "USE_PRECISE_LOGSPACE",
     "log_M_product", "log_column_normalize", "log_column_softmax",
     "World", "LiteralSpeaker", "LiteralListener", "PragmaticSpeaker_obs",
     "PragmaticListener_obs_n"}

\* one of the three priors of PragmaticListener_obs_n._process_initial_beliefs
\* over a grid of n values: uniform for None, validated otherwise
listener_log_prior(initial_beliefs, n) ==
    IF initial_beliefs = NoPrior
    THEN [raised |-> FALSE, belief |-> [i \in 1..n |-> Rat(1, n)]]
    ELSE IF Len(initial_beliefs) # n
    THEN [raised |-> TRUE]
    ELSE IF \E i \in 1..n : \/ RLess(initial_beliefs[i], RZero)
                            \/ RLess(ROne, initial_beliefs[i])
    THEN [raised |-> TRUE]
    ELSE IF RSumSeq(initial_beliefs) # ROne
    THEN [raised |-> TRUE]
    ELSE [raised |-> FALSE, belief |-> initial_beliefs]

\* the broadcast sum of the three log-priors: joint[theta][psi][alpha]
joint_log(log_belief_theta, log_belief_psi, log_belief_alpha) ==
    [t \in DOMAIN log_belief_theta |-> [p \in DOMAIN log_belief_psi |->
        [a \in DOMAIN log_belief_alpha |->
            RMul(RMul(log_belief_theta[t], log_belief_psi[p]), log_belief_alpha[a])]]]

\* (the three priors bt, bp, ba processed)
joint_of_priors(bt, bp, ba) ==
    IF bt.raised \/ bp.raised \/ ba.raised THEN [raised |-> TRUE]
    ELSE [raised |-> FALSE, joint |-> joint_log(bt.belief, bp.belief, ba.belief)]

\* PragmaticListener_obs_n._process_initial_beliefs
PragmaticListener_process_initial_beliefs(initial_beliefs_theta, initial_beliefs_psi, initial_beliefs_alpha, theta_vals, psi_vals, alpha_vals) ==
    joint_of_priors(listener_log_prior(initial_beliefs_theta, Len(theta_vals)),
                    listener_log_prior(initial_beliefs_psi, Len(psi_vals)),
                    listener_log_prior(initial_beliefs_alpha, Len(alpha_vals)))

\* the keys (psi, a) of the dictionary of embedded speakers
speaker_keys(psi_vals, alpha_vals) ==
    {<<psi_vals[i], alpha_vals[j]>> : i \in DOMAIN psi_vals, j \in DOMAIN alpha_vals}

\* the dictionary comprehensions of __init__.  At level 1 every pair gets a
\* PragmaticSpeaker_obs.  At a level above 1 every pair evaluates the name
\* PragmaticSpeaker_obs_2plus, which the module does not bind: the
\* comprehension raises NameError at its first pair.
build_pragmatic_speakers(w, level, omega, update_internal, beta, initial_beliefs_theta, keys) ==
    IF level = 1
    THEN [k \in keys |-> PragmaticSpeaker_new(w, omega, k[1], update_internal, k[2], beta,
                                               initial_beliefs_theta)]
    ELSE [k \in keys |->
             IF "PragmaticSpeaker_obs_2plus" \in core_globals
             THEN [raised |-> FALSE, warning |-> None,
                   obj |-> [level |-> level, psi |-> k[1], alpha |-> k[2]]]
             ELSE [raised |-> TRUE, warning |-> None]]

\* _compute_utterance_log_likelihood_theta_psi_alpha: for every pair the
\* speaker's table is marginalised over the observations with
\* log_M_product(..., precise=precision); precision is not a name of the
\* module, so the first pair raises NameError, wrapped into RuntimeError
compute_utterance_log_likelihood_theta_psi_alpha(pragmatic_speakers, w) ==
    IF DOMAIN pragmatic_speakers # {} /\ "precision" \notin core_globals
    THEN [raised |-> TRUE]
    ELSE [raised |-> FALSE,
          table |-> [k \in DOMAIN pragmatic_speakers |->
                        compute_utterance_log_likelihood_theta(
                            pragmatic_speakers[k].utterance_log_prob_obs,
                            w.obs_log_likelihood_theta)]]

\* _compute_theta_psi_alpha_log_post_utterance: likelihood + joint prior
compute_theta_psi_alpha_log_post_utterance(table, joint, w, psi_vals, alpha_vals) ==
    [u \in utterances(w) |-> [t \in DOMAIN joint |-> [p \in DOMAIN psi_vals |->
        [a \in DOMAIN alpha_vals |->
            RMul(table[<<psi_vals[p], alpha_vals[a]>>][u][t], joint[t][p][a])]]]]

\* the end of __init__: speakers built (built maps every key to the result
\* of its constructor), joint being the processed prior
PragmaticListener_finish(self, w, joint, built, lik) ==
    IF lik.raised THEN [raised |-> TRUE]
    ELSE [raised |-> FALSE,
          obj |-> [self EXCEPT
                     !.un_current_log_belief_theta_psi_alpha_joint = joint,
                     !.pragmatic_speakers = [k \in DOMAIN built |-> built[k].obj],
                     !.utterance_log_likelihood_theta_psi_alpha = lik.table,
                     !.theta_psi_alpha_log_post_utterance =
                         compute_theta_psi_alpha_log_post_utterance(
                             lik.table, joint, w, self.psi_vals, self.alpha_vals)]]

\* (built: the constructor results of the embedded speakers)
PragmaticListener_with_speakers(self, w, joint, built) ==
    IF \E k \in DOMAIN built : built[k].raised THEN [raised |-> TRUE]
    ELSE PragmaticListener_finish(self, w, joint, built,
             compute_utterance_log_likelihood_theta_psi_alpha(
                 [k \in DOMAIN built |-> built[k].obj], w))

\* (prior: the result of _process_initial_beliefs)
PragmaticListener_with_prior(self, w, initial_beliefs_theta, prior) ==
    IF prior.raised THEN [raised |-> TRUE]
    ELSE PragmaticListener_with_speakers(self, w, prior.joint,
             build_pragmatic_speakers(w, self.level, self.omega, self.update_internal,
                                      self.beta, initial_beliefs_theta,
                                      speaker_keys(self.psi_vals, self.alpha_vals)))

\* the argument alpha_vals: None, or a list
NoAlphaVals == [given |-> FALSE]
AlphaValsList(vals) == [given |-> TRUE, vals |-> vals]

\* the attributes __init__ assigns before its try block
PragmaticListener_attributes(level, omega, update_internal, alpha, beta, alpha_vals) ==
    [level |-> level, omega |-> omega, update_internal |-> update_internal,
     alpha |-> alpha, beta |-> beta,
     psi_vals |-> IF omega = "strat" THEN PSI_TYPES ELSE <<"inf">>,
     alpha_vals |-> IF alpha_vals.given THEN alpha_vals.vals ELSE <<alpha>>,
     un_current_log_belief_theta_psi_alpha_joint |-> Unset,
     pragmatic_speakers |-> Unset,
     utterance_log_likelihood_theta_psi_alpha |-> Unset,
     theta_psi_alpha_log_post_utterance |-> Unset]

\* (self: the attributes assigned before the try block)
PragmaticListener_try(self, w, initial_beliefs_theta, initial_beliefs_psi, initial_beliefs_alpha) ==
    PragmaticListener_with_prior(self, w, initial_beliefs_theta,
        PragmaticListener_process_initial_beliefs(
            initial_beliefs_theta, initial_beliefs_psi, initial_beliefs_alpha,
            w.theta_values, self.psi_vals, self.alpha_vals))

\* PragmaticListener_obs_n.__init__
PragmaticListener_new(w, level, omega, update_internal, alpha, beta, initial_beliefs_theta, initial_beliefs_psi, alpha_vals, initial_beliefs_alpha) ==
    IF level < 1 \/ omega \notin VALID_OMEGA_TYPES
    THEN [raised |-> TRUE]
    ELSE PragmaticListener_try(
             PragmaticListener_attributes(level, omega, update_internal, alpha, beta,
                                          alpha_vals),
             w, initial_beliefs_theta, initial_beliefs_psi, initial_beliefs_alpha)

(***************************************************************************)
(* State                                                                   *)
(***************************************************************************)
VARIABLES
    world,      \* the World object (its attributes, the generator cache included)
    op,         \* the last operation called, with its arguments
    ret,        \* what the last operation returned, or that it raised
    warned,     \* the warning the last operation emitted (None when none)
    memo,       \* a remembered call sample(theta, seed, reuse=False) and its outcome
    agent,      \* the agent object under test (NoObject before its construction)
    softmax,    \* input and results of the column softmax under test
    sim,        \* the utterance generation of the simulation layer
    fit         \* the fitting layer: the speakers it built and its results

vars == <<world, op, ret, warned, memo, agent, softmax, sim, fit>>

\* the variables of the layers above the core, and their value while only
\* the core is exercised
layers == <<sim, fit>>
NoLayers == sim = NoObject /\ fit = NoObject

Seeds == 1..NumSeeds
SeedsOrNone == {<<s>> : s \in Seeds} \cup {NoSeed}
Variates == 0..(Quant - 1)

\* theta arguments of the sampling operations: the grid values and one value
\* off the grid (halfway between the first two grid values)
SampleThetas == SeqToSet(theta_values) \cup {Rat(1, 2 * ThetaDen)}

RAbsDiff(x, y) == IF RLess(x, y) THEN RAdd(y, <<-x[1], x[2]>>) ELSE RAdd(x, <<-y[1], y[2]>>)

\* np.abs(theta_values - theta).argmin(): first index of the smallest distance
closest_theta_idx(w, theta) ==
    CHOOSE i \in ThetaIdx :
        /\ \A j \in ThetaIdx :
              RLeq(RAbsDiff(w.theta_values[i], theta), RAbsDiff(w.theta_values[j], theta))
        /\ \A j \in 1..(i - 1) :
              RLess(RAbsDiff(w.theta_values[i], theta), RAbsDiff(w.theta_values[j], theta))

\* variant of the closeness test that accepts every theta
theta_isclose_any(theta, closest) == TRUE

\* np.isclose(theta, closest, rtol=1e-10, atol=1e-10) on arguments that are
\* multiples of 1/(2*ThetaDen): two of them are close exactly when equal
theta_isclose(theta, closest) == theta = closest

RECURSIVE searchsorted(_, _, _, _, _)
\* first index i >= i0 whose cumulative probability exceeds u, acc being the
\* cumulative probability of the outcomes before i0 (cdf inversion, side = right)
searchsorted(w, t, u, i0, acc) ==
    LET cdf == RAdd(acc, w.obs_log_likelihood_theta[w.possible_outcomes[i0]][t])
    IN IF RLess(u, cdf) \/ i0 = Len(w.possible_outcomes) THEN i0
       ELSE searchsorted(w, t, u, i0 + 1, cdf)

\* variant of rng_choice that ignores the probabilities
rng_choice_uniform(w, t, v) == w.possible_outcomes[((v * Len(w.possible_outcomes)) \div Quant) + 1]

\* rng.choice(a=outcomes, p=probabilities) for the uniform variate v / Quant
rng_choice(w, t, v) == w.possible_outcomes[searchsorted(w, t, Rat(v, Quant), 1, RZero)]

\* the variate at each position of the stream of an integer seed: a fixed
\* function of seed and position (the bit generator is deterministic)
stream(seed, pos) == (seed + pos) % Quant

\* np.random.default_rng(seed)
default_rng(seed) == [seed |-> seed, pos |-> 0]

\* the variates the next draw of generator g can produce: the stream of an
\* integer seed is fixed, that of seed None comes from OS entropy
next_variates(g) == IF g.seed = NoSeed THEN Variates ELSE {stream(g.seed[1], g.pos)}
advance(g) == IF g.seed = NoSeed THEN g ELSE [g EXCEPT !.pos = g.pos + 1]
can_draw(g) == g.seed = NoSeed \/ g.pos < MaxDraws

\* variant of the generator choice in which reuse=False also draws from a
\* generator cached under the requested seed
sample_rng_shared(w, seed, reuse) ==
    IF w.has_cached_rng /\ w.cached_seed = seed
    THEN [rng |-> w.cached_rng, cache |-> reuse, warning |-> None]
    ELSE [rng |-> default_rng(seed), cache |-> reuse,
          warning |-> IF ~reuse THEN None
                      ELSE IF ~w.has_cached_rng THEN "no cached RNG" ELSE "seed mismatch"]

\* variant of the generator choice in which reuse=True keeps drawing from the
\* cached generator whatever the requested seed
sample_rng_sticky(w, seed, reuse) ==
    IF reuse
    THEN IF w.has_cached_rng
         THEN [rng |-> w.cached_rng, cache |-> TRUE, warning |-> None]
         ELSE [rng |-> default_rng(seed), cache |-> TRUE, warning |-> "no cached RNG"]
    ELSE [rng |-> default_rng(seed), cache |-> FALSE, warning |-> None]

\* the generator World.sample draws from, the cache it leaves and the warning
sample_rng(w, seed, reuse) ==
    IF reuse
    THEN IF w.has_cached_rng /\ w.cached_seed = seed
         THEN [rng |-> w.cached_rng, cache |-> TRUE, warning |-> None]
         ELSE [rng |-> default_rng(seed), cache |-> TRUE,
               warning |-> IF ~w.has_cached_rng THEN "no cached RNG" ELSE "seed mismatch"]
    ELSE [rng |-> default_rng(seed), cache |-> FALSE, warning |-> None]

\* history: one call sample(theta, seed, reuse=False) with an integer seed
\* may be remembered, with the outcome it returned
\* (on only when the specification keeps the history)
NoMemo(on) == [on |-> on, set |-> FALSE]
memo_updates(theta, seed, reuse, outcome) ==
    IF memo.on /\ ~reuse /\ seed # NoSeed
    THEN IF ~memo.set
         THEN {memo, [on |-> TRUE, set |-> TRUE, theta |-> theta, seed |-> seed,
                      outcome |-> outcome, again |-> FALSE]}
         ELSE IF memo.theta = theta /\ memo.seed = seed
              THEN {[memo EXCEPT !.again = TRUE]}
              ELSE {memo}
    ELSE {memo}

\* World.sample(theta, seed, reuse)
sample(theta, seed, reuse) ==
    LET t == closest_theta_idx(world, theta)
        closest == world.theta_values[t]
        r == sample_rng(world, seed, reuse)
    IN /\ agent = NoObject /\ softmax = NoObject
       /\ op' = [name |-> "sample", theta |-> theta, seed |-> seed, reuse |-> reuse]
       /\ IF ~theta_isclose(theta, closest)
          THEN /\ ret' = Raise
               /\ warned' = None
               /\ UNCHANGED <<world, memo>>
          ELSE /\ can_draw(r.rng)
               /\ \E v \in next_variates(r.rng) :
                     /\ ret' = Return(rng_choice(world, t, v))
                     /\ memo' \in memo_updates(theta, seed, reuse, rng_choice(world, t, v))
               /\ warned' = r.warning
               /\ world' = IF r.cache
                           THEN [world EXCEPT !.has_cached_rng = TRUE,
                                              !.cached_rng = advance(r.rng),
                                              !.cached_seed = seed]
                           ELSE world
       /\ UNCHANGED <<agent, softmax, layers>>

\* the n_round outcomes drawn from a fresh generator of run_seed, for the
\* variates vs (one per round)
run_outcomes(w, t, vs) == [i \in 1..Len(vs) |-> rng_choice(w, t, vs[i])]

\* the variate sequences a fresh generator of run_seed can produce in n_round draws
run_variates(run_seed, n_round) ==
    IF run_seed = NoSeed THEN [1..n_round -> Variates]
    ELSE {[i \in 1..n_round |-> stream(run_seed[1], i - 1)]}

\* World.sample_run(theta, n_round, run_seed)
sample_run(theta, n_round, run_seed) ==
    LET t == closest_theta_idx(world, theta)
        closest == world.theta_values[t]
    IN /\ agent = NoObject /\ softmax = NoObject
       /\ op' = [name |-> "sample_run", theta |-> theta, seed |-> run_seed, n_round |-> n_round]
       /\ warned' = IF theta_isclose(theta, closest) THEN None ELSE "theta not in theta_values"
       /\ \E vs \in run_variates(run_seed, n_round) :
             ret' = Return([observation |-> run_outcomes(world, t, vs), theta |-> closest,
                            run_seed |-> run_seed])
       /\ UNCHANGED <<world, memo, agent, softmax, layers>>

\* World.sample_multiple_runs(theta, n_run, n_round, base_seed): run run_id
\* uses the seed base_seed + run_id
sample_multiple_runs(theta, n_run, n_round, base_seed) ==
    LET t == closest_theta_idx(world, theta)
        closest == world.theta_values[t]
        run_seed(run_id) == IF base_seed = NoSeed THEN NoSeed ELSE <<base_seed[1] + run_id>>
    IN /\ agent = NoObject /\ softmax = NoObject
       /\ op' = [name |-> "sample_multiple_runs", theta |-> theta, seed |-> base_seed,
                 n_round |-> n_round, n_run |-> n_run]
       /\ warned' = IF theta_isclose(theta, closest) THEN None ELSE "theta not in theta_values"
       /\ \E vss \in IF base_seed = NoSeed
                       THEN [0..(n_run - 1) -> [1..n_round -> Variates]]
                       ELSE {[run_id \in 0..(n_run - 1) |->
                                [i \in 1..n_round |-> stream(base_seed[1] + run_id, i - 1)]]} :
             /\ ret' = Return([run_id \in 0..(n_run - 1) |->
                                 [observation |-> run_outcomes(world, t, vss[run_id]),
                                  theta |-> closest, run_seed |-> run_seed(run_id)]])
       /\ UNCHANGED <<world, memo, agent, softmax, layers>>

\* the read-only accessors of World
accessor(name) ==
    /\ agent = NoObject /\ softmax = NoObject
    /\ op' = [name |-> name]
    /\ ret' = Return(CASE name = "utterances" -> utterances(world)
                       [] name = "observations" -> observations(world)
                       [] name = "suc_likelihood_theta" -> world.suc_log_likelihood_theta
                       [] name = "obs_likelihood_theta" -> world.obs_log_likelihood_theta)
    /\ warned' = None
    /\ UNCHANGED <<world, memo, agent, softmax, layers>>

\* the shapes (n, m) of the Worlds constructed
Shapes == {nm \in (1..MaxShape) \X (1..MaxShape) : nm[1] + nm[2] <= MaxShape}

InitWorld ==
    /\ \E nm \in Shapes : world = WorldNew(nm[1], nm[2])
    /\ op = [name |-> None] /\ ret = NoCall /\ warned = None
    /\ memo = NoMemo(FALSE)
    /\ agent = NoObject
    /\ softmax = NoObject
    /\ NoLayers

NextWorld ==
    \/ \E theta \in SampleThetas, seed \in SeedsOrNone, reuse \in BOOLEAN :
          sample(theta, seed, reuse)
    \/ \E theta \in SampleThetas, n_round \in 1..MaxDraws, run_seed \in SeedsOrNone :
          sample_run(theta, n_round, run_seed)
    \/ \E theta \in SampleThetas, n_run \in 1..MaxDraws, n_round \in 1..MaxDraws,
          base_seed \in SeedsOrNone :
          /\ n_run * n_round <= MaxDraws
          /\ sample_multiple_runs(theta, n_run, n_round, base_seed)
    \/ \E name \in {"utterances", "observations", "suc_likelihood_theta",
                    "obs_likelihood_theta"} : accessor(name)

SpecWorld == InitWorld /\ [][NextWorld]_vars

\* the sampling specification: only World.sample is called, and the history
\* variable memo is in use
InitSample ==
    /\ \E nm \in Shapes : world = WorldNew(nm[1], nm[2])
    /\ op = [name |-> None] /\ ret = NoCall /\ warned = None
    /\ memo = NoMemo(TRUE)
    /\ agent = NoObject
    /\ softmax = NoObject
    /\ NoLayers

NextSample ==
    \E theta \in SampleThetas, seed \in SeedsOrNone, reuse \in BOOLEAN :
        sample(theta, seed, reuse)

SpecSample == InitSample /\ [][NextSample]_vars

(***************************************************************************)
(* Agents built on a World                                                 *)
(***************************************************************************)
\* the priors handed to the constructors: None (uniform), all mass on one
\* grid value, half the mass on each boundary value theta = 0 and theta = 1,
\* and an invalid vector (all zeros, which does not sum to 1)
Priors ==
    {NoPrior}
    \cup {[t \in ThetaIdx |-> IF t = i THEN ROne ELSE RZero] : i \in ThetaIdx}
    \cup {[t \in ThetaIdx |-> IF t = 1 \/ t = ThetaDen + 1 THEN Rat(1, 2) ELSE RZero]}
    \cup {[t \in ThetaIdx |-> RZero]}

\* the softmax temperatures: positive floats 1.0 .. MaxAlpha and "determ"
Alphas == {Alpha(a) : a \in 1..MaxAlpha} \cup {DETERM}

\* a tuple of the right length that is not an outcome of the World, and a
\* string that is not one of its utterances
UnknownObservation(w) == [j \in 1..(w.m + 1) |-> 0]
UnknownUtterance == "unknown"

\* the belief vector an agent reports through current_belief_theta
agent_belief(a) ==
    IF a.kind = "PragmaticSpeaker_obs"
    THEN current_belief_theta(a.obj.literal_speaker.un_current_log_belief)
    ELSE current_belief_theta(a.obj.un_current_log_belief)

\* a constructor call: the agent exists afterwards unless the constructor raised
construct(kind, r, warning) ==
    /\ agent = NoObject /\ softmax = NoObject
    /\ op' = [name |-> kind \o ".__init__"]
    /\ warned' = warning
    /\ IF r.raised
       THEN ret' = Raise /\ agent' = agent
       ELSE ret' = Return(None) /\ agent' = [kind |-> kind, obj |-> r.obj, round |-> 0]
    /\ UNCHANGED <<world, memo, softmax, layers>>

LiteralSpeaker_init(initial_beliefs_theta) ==
    construct("LiteralSpeaker", LiteralSpeaker_new(world, initial_beliefs_theta), None)

LiteralListener_init(initial_beliefs_theta) ==
    construct("LiteralListener", LiteralListener_new(world, initial_beliefs_theta), None)

\* (the pragmatic speaker is built on the Worlds with n <= MaxPragmaticN; op
\* keeps the requested omega and psi)
PragmaticSpeaker_init(omega, psi, update_internal, alpha, beta, initial_beliefs_theta) ==
    /\ world.n <= MaxPragmaticN
    /\ agent = NoObject /\ softmax = NoObject
    /\ op' = [name |-> "PragmaticSpeaker_obs.__init__", omega |-> omega, psi |-> psi]
    /\ \E r \in {PragmaticSpeaker_new(world, omega, psi, update_internal, alpha, beta,
                                      initial_beliefs_theta)} :
          /\ warned' = r.warning
          /\ IF r.raised
             THEN ret' = Raise /\ agent' = agent
             ELSE /\ ret' = Return(None)
                  /\ agent' = [kind |-> "PragmaticSpeaker_obs", obj |-> r.obj, round |-> 0]
    /\ UNCHANGED <<world, memo, softmax, layers>>

\* a call LiteralSpeaker.update_and_speak(observation)
speaker_update_and_speak(observation) ==
    LET r == LiteralSpeaker_update_and_speak(agent.obj, world, observation)
    IN /\ agent.kind = "LiteralSpeaker" /\ agent.round < MaxRounds
       /\ op' = [name |-> "LiteralSpeaker.update_and_speak", observation |-> observation]
       /\ agent' = [agent EXCEPT !.obj = r.obj, !.round = @ + 1]
       /\ IF r.raised THEN ret' = Raise ELSE \E u \in r.returns : ret' = Return(u)
       /\ warned' = None
       /\ UNCHANGED <<world, memo, softmax, layers>>

\* a call LiteralListener.listen_and_update(utterance)
listener_listen_and_update(utterance) ==
    LET r == LiteralListener_listen_and_update(agent.obj, world, utterance)
    IN /\ agent.kind = "LiteralListener" /\ agent.round < MaxRounds
       /\ op' = [name |-> "LiteralListener.listen_and_update", utterance |-> utterance]
       /\ agent' = [agent EXCEPT !.obj = r.obj, !.round = @ + 1]
       /\ ret' = IF r.raised THEN Raise ELSE Return(None)
       /\ warned' = None
       /\ UNCHANGED <<world, memo, softmax, layers>>

\* a call PragmaticSpeaker_obs.update_and_speak(observation)
pragmatic_update_and_speak(observation) ==
    /\ agent.kind = "PragmaticSpeaker_obs" /\ agent.round < MaxRounds
    /\ op' = [name |-> "PragmaticSpeaker_obs.update_and_speak", observation |-> observation]
    /\ \E r \in PragmaticSpeaker_update_and_speak(agent.obj, world, observation) :
          /\ agent' = [agent EXCEPT !.obj = r.obj, !.round = @ + 1]
          /\ ret' = IF r.raised THEN Raise ELSE Return(r.value)
    /\ warned' = None
    /\ UNCHANGED <<world, memo, softmax, layers>>

InitAgent ==
    /\ \E nm \in Shapes : world = WorldNew(nm[1], nm[2])
    /\ op = [name |-> None] /\ ret = NoCall /\ warned = None
    /\ memo = NoMemo(FALSE)
    /\ agent = NoObject
    /\ softmax = NoObject
    /\ NoLayers

NextAgent ==
    \/ \E prior \in Priors : LiteralSpeaker_init(prior)
    \/ \E prior \in Priors : LiteralListener_init(prior)
    \/ \E omega \in VALID_OMEGA_TYPES, psi \in VALID_PSI_TYPES, update_internal \in BOOLEAN,
          alpha \in Alphas, beta \in Betas, prior \in Priors :
          PragmaticSpeaker_init(omega, psi, update_internal, alpha, beta, prior)
    \/ \E observation \in observations(world) \cup {UnknownObservation(world)} :
          speaker_update_and_speak(observation)
    \/ \E utterance \in utterances(world) \cup {UnknownUtterance} :
          listener_listen_and_update(utterance)
    \/ \E observation \in observations(world) \cup {UnknownObservation(world)} :
          pragmatic_update_and_speak(observation)

SpecAgent == InitAgent /\ [][NextAgent]_vars


(***************************************************************************)
(* The deterministic softmax (alpha = "determ") on utility tables, in      *)
(* log_column_softmax and in the static grid search of the fitting module. *)
(* A utility is -inf (NegInf) or <<v>>, the float v * 1e-8, v an integer.  *)
(***************************************************************************)
NegInf == <<>>

\* the utilities of the tables: -inf, 0, -1 and -1.000005
UtilityValues == {NegInf, <<0>>, <<-100000000>>, <<-100000500>>}
UtilityTables == [1..SoftmaxRows -> [1..SoftmaxCols -> UtilityValues]]

Abs(x) == IF x < 0 THEN -x ELSE x

\* np.isclose(a, b) with the default rtol = 1e-5 and atol = 1e-8:
\* |a - b| <= atol + rtol * |b|, equal infinities being close
isclose(a, b) ==
    IF a = NegInf \/ b = NegInf THEN a = b
    ELSE Abs(a[1] - b[1]) <= 1 + (Abs(b[1]) \div 100000)

\* a < b on utilities
utility_less(a, b) == b # NegInf /\ (a = NegInf \/ a[1] < b[1])

\* np.max(X, axis=0)
column_max(X) ==
    [j \in cols(X) |->
        CHOOSE v \in {X[i][j] : i \in rows(X)} :
            \A i \in rows(X) : ~utility_less(v, X[i][j])]

\* the deterministic branch of log_column_softmax only takes the column
\* maximum and compares the entries with it, so it gives the same mask on any
\* strictly increasing image of the utilities: v is handed over as
\* 1 / (1 - v * 1e8), and -inf as 0
as_log_value(v) == IF v = NegInf THEN RZero ELSE <<1, 1 - v[1]>>

\* the deterministic branch of the grid search: log P(u | O) of every
\* utterance u (row) that can be observed with every observation O (column)
grid_search_determ(utility_table) ==
    LET max_utilities == column_max(utility_table)
        is_max == [u \in rows(utility_table) |-> [o \in cols(utility_table) |->
                      isclose(utility_table[u][o], max_utilities[o])]]
        n_ties == [o \in cols(utility_table) |->
                      Cardinality({u \in rows(utility_table) : is_max[u][o]})]
    IN [u \in rows(utility_table) |-> [o \in cols(utility_table) |->
          IF is_max[u][o] THEN Rat(1, n_ties[o]) ELSE RZero]]

\* a call log_column_softmax(X, "determ") on the table drawn
softmax_determ ==
    LET X == softmax.X
        r == log_column_softmax([i \in rows(X) |-> [j \in cols(X) |-> as_log_value(X[i][j])]],
                                DETERM)
    IN /\ softmax.kind = "input"
       /\ op' = [name |-> "log_column_softmax"]
       /\ ret' = IF r.raised THEN Raise ELSE Return(None)
       /\ softmax' = IF r.raised THEN [kind |-> "log_column_softmax", X |-> X, raised |-> TRUE]
                     ELSE [kind |-> "log_column_softmax", X |-> X, raised |-> FALSE,
                           log_prob |-> r.log_prob]
       /\ warned' = None
       /\ UNCHANGED <<world, memo, agent, layers>>

\* a deterministic-alpha pass of _static_grid_search_multiT over the table drawn
static_grid_search_determ ==
    /\ softmax.kind = "input"
    /\ op' = [name |-> "_static_grid_search_multiT"]
    /\ ret' = Return(None)
    /\ softmax' = [kind |-> "_static_grid_search_multiT", X |-> softmax.X,
                   raised |-> FALSE, log_prob |-> grid_search_determ(softmax.X)]
    /\ warned' = None
    /\ UNCHANGED <<world, memo, agent, layers>>

InitSoftmax ==
    /\ world = WorldNew(1, 1)
    /\ op = [name |-> None] /\ ret = NoCall /\ warned = None
    /\ memo = NoMemo(FALSE)
    /\ agent = NoObject
    /\ \E X \in UtilityTables : softmax = [kind |-> "input", X |-> X]
    /\ NoLayers

NextSoftmax ==
    \/ softmax_determ
    \/ static_grid_search_determ

SpecSoftmax == InitSoftmax /\ [][NextSoftmax]_vars

(***************************************************************************)
(* log_column_softmax on tables of log values.  An entry is the log of a   *)
(* rational, held as that rational: -inf is 0, log(1/2) is 1/2, 0 is 1.    *)
(***************************************************************************)
LogValues == {RZero, Rat(1, 2), ROne}
LogTables == [1..SoftmaxRows -> [1..SoftmaxCols -> LogValues]]

\* a call log_column_softmax(X, alpha) on the table drawn
softmax_call(alpha) ==
    LET r == log_column_softmax(softmax.X, alpha)
    IN /\ softmax.kind = "log_input"
       /\ op' = [name |-> "log_column_softmax", alpha |-> alpha]
       /\ ret' = IF r.raised THEN Raise ELSE Return(None)
       /\ softmax' = IF r.raised
                     THEN [kind |-> "log_column_softmax", X |-> softmax.X, raised |-> TRUE]
                     ELSE [kind |-> "log_column_softmax", X |-> softmax.X, raised |-> FALSE,
                           log_prob |-> r.log_prob]
       /\ warned' = None
       /\ UNCHANGED <<world, memo, agent, layers>>

InitLogSoftmax ==
    /\ world = WorldNew(1, 1)
    /\ op = [name |-> None] /\ ret = NoCall /\ warned = None
    /\ memo = NoMemo(FALSE)
    /\ agent = NoObject
    /\ \E X \in LogTables : softmax = [kind |-> "log_input", X |-> X]
    /\ NoLayers

NextLogSoftmax == \E alpha \in Alphas : softmax_call(alpha)

SpecLogSoftmax == InitLogSoftmax /\ [][NextLogSoftmax]_vars

(***************************************************************************)
(* Utterance generation (simulation layer):                                *)
(* generate_utterances_for_observations_multiT runs one task per           *)
(* observation sequence; a task generates n_utt_seq utterance sequences,    *)
(* each with a fresh literal speaker, after seeding the global generator    *)
(* of the process it runs in.                                              *)
(***************************************************************************)
\* task_idx * 10_000 in the seed of a task
SEED_STRIDE == 10000

\* the values of n_utt_seq: 0 (rejected), the small counts, and the counts
\* around the seed stride
UttSeqCounts == (0..MaxUttSeq) \cup {SEED_STRIDE, SEED_STRIDE + 1}

\* the observation sequences of obs_data (length max_T = SeqLen)
ObsSeqs(w) == [1..SeqLen -> observations(w)]

\* World.utterances in index order: itertools.product of the word lists
utterance_list(n) ==
    IF n > 1
    THEN [k \in 1..32 |-> QUANTIFIERS[((k - 1) \div 8) + 1] \o ","
                          \o QUANTIFIERS[(((k - 1) \div 2) % 4) + 1] \o ","
                          \o PREDICATES[((k - 1) % 2) + 1]]
    ELSE [k \in 1..8 |-> QUANTIFIERS[((k - 1) \div 2) + 1] \o ","
                         \o PREDICATES[((k - 1) % 2) + 1]]

\* the sub-list of a list whose members are in the set S
restrict(list, S) == SelectSeq(list, LAMBDA u : u \in S)

\* np.random.choice(a) for the uniform variate v / Quant
random_choice(a, v) == a[((v * Len(a)) \div Quant) + 1]

\* base_seed of a task and utt_seed of one of its utterance sequences
base_seed(random_seed, task_idx) ==
    IF random_seed = NoSeed THEN NoSeed ELSE <<random_seed[1] + task_idx * SEED_STRIDE>>
utt_seed(base, utt_idx) == IF base = NoSeed THEN NoSeed ELSE <<base[1] + utt_idx>>

\* np.random.seed(seed) on the global generator g of a process; nothing is
\* done for seed None
np_random_seed(g, seed) == IF seed = NoSeed THEN g ELSE default_rng(seed)

\* the process whose global generator worker w uses: threads share the one
\* of the calling process, loky workers are processes of their own
process_of(backend, w) == IF backend = "threading" THEN 1 ELSE w

\* the task list built from obs_data, and the idle workers
build_tasks(obs_seqs, random_seed) ==
    [i \in 1..Len(obs_seqs) |->
        [obs_seq |-> obs_seqs[i],
         base_seed |-> base_seed(random_seed, i - 1),
         state |-> "pending", worker |-> 0, utt_idx |-> 0,
         seeded |-> FALSE, speaker |-> NoObject, utt_seq |-> <<>>, records |-> <<>>]]

\* a call generate_utterances_for_observations_multiT(obs_data,
\* {"speaker_type": "literal"}, n_utt_seq, n_jobs, backend): validation, the
\* duplicate check and the task list; the tasks then run in the workers
generate_utterances(n_utt_seq, n_jobs, backend) ==
    /\ sim.phase \in {"ready", "stored"}
    /\ op' = [name |-> "generate_utterances_for_observations_multiT",
              n_utt_seq |-> n_utt_seq, n_jobs |-> n_jobs, backend |-> backend]
    /\ warned' = None
    /\ IF n_utt_seq < 1 \/ sim.phase = "stored"
       THEN ret' = Raise /\ sim' = sim
       ELSE /\ ret' = NoCall
            /\ sim' = [sim EXCEPT
                  !.phase = "running",
                  !.n_utt_seq = n_utt_seq, !.n_jobs = n_jobs, !.backend = backend,
                  !.tasks = build_tasks(sim.obs_seqs, sim.random_seed),
                  !.workers = [w \in 1..n_jobs |-> 0],
                  !.rng = [p \in 1..n_jobs |-> default_rng(NoSeed)]]
    /\ UNCHANGED <<world, memo, agent, softmax, fit>>

\* the frame of a step of a running generation
\* (the tasks are run for n_utt_seq <= MaxUttSeq)
generation_step(name, i) ==
    /\ sim.phase = "running" /\ sim.n_utt_seq <= MaxUttSeq
    /\ i \in DOMAIN sim.tasks
    /\ op' = [name |-> name, task |-> i]
    /\ ret' = NoCall /\ warned' = None
    /\ UNCHANGED <<world, memo, agent, softmax, fit>>

\* joblib (or the list comprehension of n_jobs = 1) hands the next task of
\* the list to an idle worker
task_start(i, w) ==
    /\ generation_step("run_task", i)
    /\ sim.tasks[i].state = "pending"
    /\ \A j \in 1..(i - 1) : sim.tasks[j].state # "pending"
    /\ w \in DOMAIN sim.workers /\ sim.workers[w] = 0
    /\ sim' = [sim EXCEPT !.tasks[i].state = "running", !.tasks[i].worker = w,
                          !.workers[w] = i]

\* the head of the utt_idx loop: np.random.seed(utt_seed) and a fresh speaker
task_seed(i) ==
    LET task == sim.tasks[i]
        p == process_of(sim.backend, task.worker)
    IN /\ generation_step("np.random.seed", i)
       /\ task.state = "running" /\ ~task.seeded
       /\ sim' = [sim EXCEPT
             !.rng[p] = np_random_seed(sim.rng[p], utt_seed(task.base_seed, task.utt_idx)),
             !.tasks[i].seeded = TRUE,
             !.tasks[i].speaker = LiteralSpeaker_new(world, NoPrior).obj,
             !.tasks[i].utt_seq = <<>>]

\* the task after the utterance utt has been appended to its sequence: at the
\* end of the observation sequence the record is stored and the next
\* utterance sequence, or the end of the task, follows
task_after_utterance(task, speaker, utt, n_utt_seq) ==
    IF Len(task.utt_seq) + 1 < Len(task.obs_seq)
    THEN [task EXCEPT !.speaker = speaker, !.utt_seq = Append(task.utt_seq, utt)]
    ELSE [task EXCEPT
            !.speaker = NoObject, !.utt_seq = <<>>, !.seeded = FALSE,
            !.records = Append(task.records,
                               [utt_idx |-> task.utt_idx,
                                utt_seq |-> Append(task.utt_seq, utt),
                                utt_seed |-> utt_seed(task.base_seed, task.utt_idx)]),
            !.utt_idx = task.utt_idx + 1,
            !.state = IF task.utt_idx + 1 = n_utt_seq THEN "done" ELSE "running"]

\* one speaker.update_and_speak(obs) of the task: the utterance is drawn from
\* the global generator of the process the task runs in
task_speak(i) ==
    LET task == sim.tasks[i]
        p == process_of(sim.backend, task.worker)
        obs == task.obs_seq[Len(task.utt_seq) + 1]
        r == LiteralSpeaker_update_and_speak(task.speaker, world, obs)
        uttrs_true == restrict(utterance_list(world.n), r.returns)
    IN /\ generation_step("update_and_speak", i)
       /\ task.state = "running" /\ task.seeded
       /\ IF r.raised
          THEN sim' = [sim EXCEPT !.phase = "failed"]
          ELSE \E v \in next_variates(sim.rng[p]) :
                  LET after == task_after_utterance(task, r.obj, random_choice(uttrs_true, v),
                                                    sim.n_utt_seq)
                  IN sim' = [sim EXCEPT
                        !.rng[p] = advance(sim.rng[p]),
                        !.tasks[i] = after,
                        !.workers[task.worker] = IF after.state = "done" THEN 0 ELSE i]

\* all tasks have returned: the records are stored in obs_data
store_results ==
    /\ sim.phase = "running"
    /\ \A i \in DOMAIN sim.tasks : sim.tasks[i].state = "done"
    /\ op' = [name |-> "store_results"]
    /\ ret' = Return(None) /\ warned' = None
    /\ sim' = [sim EXCEPT !.phase = "stored",
                          !.utterances = [i \in DOMAIN sim.tasks |-> sim.tasks[i].records]]
    /\ UNCHANGED <<world, memo, agent, softmax, fit>>

\* obs_data as sample_observation_sequences_multiT leaves it: the World, the
\* random seed of the configuration and one observation sequence per task,
\* no utterances yet
InitGenerate ==
    /\ world = WorldNew(1, 1)
    /\ op = [name |-> None] /\ ret = NoCall /\ warned = None
    /\ memo = NoMemo(FALSE)
    /\ agent = NoObject
    /\ softmax = NoObject /\ fit = NoObject
    /\ \E random_seed \in SeedsOrNone, n_tasks \in 1..NumTasks :
          \E obs_seqs \in [1..n_tasks -> ObsSeqs(world)] :
             sim = [phase |-> "ready", random_seed |-> random_seed, obs_seqs |-> obs_seqs,
                    n_utt_seq |-> 0, n_jobs |-> 0, backend |-> None,
                    tasks |-> <<>>, workers |-> <<>>, rng |-> <<>>, utterances |-> <<>>]

NextGenerate ==
    \/ \E n_utt_seq \in UttSeqCounts, n_jobs \in 1..MaxJobs, backend \in {"loky", "threading"} :
          generate_utterances(n_utt_seq, n_jobs, backend)
    \/ \E i \in 1..NumTasks, w \in 1..MaxJobs : task_start(i, w)
    \/ \E i \in 1..NumTasks : task_seed(i)
    \/ \E i \in 1..NumTasks : task_speak(i)
    \/ store_results

SpecGenerate == InitGenerate /\ [][NextGenerate]_vars

(***************************************************************************)
(* Grid search for the optimal alpha (fitting layer).  The utility table   *)
(* of the speaker is drawn; a utility is the log of a rational in (0, 1],  *)
(* held as that rational, or -inf, held as 0.  The sequences have one       *)
(* observation (column obs) and one utterance (row utt), and Ts = [1].      *)
(***************************************************************************)
\* a utility just below log(1/2): log(0.499999) = log(1/2) - 2.0e-6
NearHalf == <<499999, 1000000>>
GridUtilities == {RZero, NearHalf, Rat(1, 2), ROne}
GridTables == [1..GridRows -> [1..GridCols -> GridUtilities]]

\* np.isclose(log a, log b) with the default rtol = 1e-5 and atol = 1e-8, for
\* a, b in [0, 1]: |log a - log b| <= atol + rtol * |log b|.  Equal values are
\* close and -inf is close to -inf only.  Otherwise the test is decided by
\* rational bounds, |log a - log b| <= |a - b| / min(a, b) and
\* |log b| >= 1 - b: the values are close when
\* |a - b| / min(a, b) <= rtol * (1 - b).  On GridUtilities this is the value
\* of np.isclose: 2.0e-6 <= 5.0e-6 for the pair 1/2, 0.499999, and every
\* other pair of unequal values is further apart than 0.69 while the
\* tolerance stays below 1.0e-5.
log_isclose(a, b) ==
    IF a = b THEN TRUE
    ELSE IF a = RZero \/ b = RZero THEN FALSE
    ELSE LET lo == IF RLess(a, b) THEN a ELSE b
             hi == IF RLess(a, b) THEN b ELSE a
         IN RLeq(RDiv(RAdd(hi, <<-lo[1], lo[2]>>), lo),
                 RMul(<<1, 100000>>, RAdd(ROne, <<-b[1], b[2]>>)))

\* the candidate temperatures: the grid points, then "determ" when asked for
grid_alphas(include_determ) ==
    [k \in 1..MaxAlpha |-> Alpha(k)] \o (IF include_determ THEN <<DETERM>> ELSE <<>>)

\* np.argmax over a list of log-likelihoods: the first index of the maximum
np_argmax(lls) ==
    CHOOSE k \in DOMAIN lls :
        /\ \A j \in DOMAIN lls : RLeq(lls[j], lls[k])
        /\ \A j \in 1..(k - 1) : RLess(lls[j], lls[k])

\* log_likelihood_utt_seq for a static pragmatic speaker with utility table
\* X and temperature alpha on the sequence (obs), (utt): the speaker is built
\* (its constructor runs the column softmax) and its table is looked up
log_likelihood_utt_seq(X, alpha, utt, obs) ==
    LET r == log_column_softmax(X, alpha)
    IN IF r.raised THEN [raised |-> TRUE]
       ELSE [raised |-> FALSE, ll |-> r.log_prob[utt][obs]]

\* neg_log_likelihood of log_likelihood_alpha_opt_utt_seq, negated back: an
\* evaluation that raises counts as -inf
guarded_log_likelihood(X, alpha, utt, obs) ==
    LET r == log_likelihood_utt_seq(X, alpha, utt, obs)
    IN IF r.raised THEN RZero ELSE r.ll

\* log P(u | O, alpha) as _static_grid_search_multiT computes it from the
\* utility table: its own softmax, and np.isclose for "determ"
static_log_prob(X, alpha, utt, obs) ==
    IF alpha.determ
    THEN LET max_utility == RMaxOver([u \in rows(X) |-> X[u][obs]], rows(X))
             n_ties == Cardinality({u \in rows(X) : log_isclose(X[u][obs], max_utility)})
         IN IF log_isclose(X[utt][obs], max_utility) THEN Rat(1, n_ties) ELSE RZero
    ELSE RDiv(RPow(X[utt][obs], alpha.value),
              RSumOver([u \in rows(X) |-> RPow(X[u][obs], alpha.value)], rows(X)))

\* the result record of a grid search
grid_result(name, X, utt, obs, alphas, optimal_alpha, max_log_lik) ==
    [kind |-> name, X |-> X, utt |-> utt, obs |-> obs, alphas |-> alphas,
     optimal_alpha |-> optimal_alpha, max_log_lik |-> max_log_lik]

\* a call _static_grid_search_multiT for one sequence: the reference speaker
\* is built with alpha = 1.0 (which raises on an all -inf column), every
\* candidate is evaluated from the utility table, and the first best wins
static_grid_search(utt, obs, include_determ) ==
    LET X == fit.X
        alphas == grid_alphas(include_determ)
        all_lls == [k \in DOMAIN alphas |-> static_log_prob(X, alphas[k], utt, obs)]
        best == np_argmax(all_lls)
    IN /\ fit.kind = "input"
       /\ op' = [name |-> "_static_grid_search_multiT", include_determ |-> include_determ]
       /\ warned' = None
       /\ IF log_column_softmax(X, Alpha(1)).raised
          THEN ret' = Raise /\ fit' = [kind |-> "raised", X |-> X]
          ELSE /\ ret' = Return(None)
               /\ fit' = grid_result("_static_grid_search_multiT", X, utt, obs, alphas,
                                     alphas[best], all_lls[best])
       /\ UNCHANGED <<world, memo, agent, softmax, sim>>

\* a call log_likelihood_alpha_opt_utt_seq(grid_search=True) for one
\* sequence: log_likelihood_utt_seq is evaluated at every grid point and,
\* when asked for, at "determ", which wins only when strictly better
alpha_opt_grid_search(utt, obs, include_determ) ==
    LET X == fit.X
        alphas == grid_alphas(FALSE)
        log_likelihoods == [k \in DOMAIN alphas |->
                               guarded_log_likelihood(X, alphas[k], utt, obs)]
        best_idx == np_argmax(log_likelihoods)
        determ_ll == guarded_log_likelihood(X, DETERM, utt, obs)
        determ_wins == include_determ /\ RLess(log_likelihoods[best_idx], determ_ll)
    IN /\ fit.kind = "input"
       /\ op' = [name |-> "log_likelihood_alpha_opt_utt_seq", include_determ |-> include_determ]
       /\ warned' = IF log_column_softmax(X, Alpha(1)).raised THEN "Error at alpha" ELSE None
       /\ ret' = Return(None)
       /\ fit' = grid_result("log_likelihood_alpha_opt_utt_seq", X, utt, obs,
                             grid_alphas(include_determ),
                             IF determ_wins THEN DETERM ELSE alphas[best_idx],
                             IF determ_wins THEN determ_ll ELSE log_likelihoods[best_idx])
       /\ UNCHANGED <<world, memo, agent, softmax, sim>>

InitGridSearch ==
    /\ world = WorldNew(1, 1)
    /\ op = [name |-> None] /\ ret = NoCall /\ warned = None
    /\ memo = NoMemo(FALSE)
    /\ agent = NoObject
    /\ softmax = NoObject /\ sim = NoObject
    /\ \E X \in GridTables : fit = [kind |-> "input", X |-> X]

NextGridSearch ==
    \/ \E utt \in 1..GridRows, obs \in 1..GridCols, include_determ \in BOOLEAN :
          static_grid_search(utt, obs, include_determ)
    \/ \E utt \in 1..GridRows, obs \in 1..GridCols, include_determ \in BOOLEAN :
          alpha_opt_grid_search(utt, obs, include_determ)

SpecGridSearch == InitGridSearch /\ [][NextGridSearch]_vars

(***************************************************************************)
(* Speaker instances of the fitting layer.  Every likelihood evaluation    *)
(* builds its own PragmaticSpeaker_obs on the World; an instance is held   *)
(* with the object its constructor returned (built), the object at the end *)
(* of the evaluation (speaker), the number of listen_and_update calls made *)
(* on its embedded listener (advanced) and the temperatures whose          *)
(* log-likelihoods were computed from values read from it (temperatures).  *)
(***************************************************************************)
instance(built, speaker, advanced, temperatures) ==
    [built |-> built, speaker |-> speaker, advanced |-> advanced,
     temperatures |-> temperatures]

\* the two statements that end a step of the sequence loops:
\* speaker.literal_listener.listen_and_update(utt), then
\* speaker.utterance_log_prob_obs = speaker._compute_utterance_log_prob_obs(speaker.alpha)
\* (c is what _compute_utterance_log_prob_obs gave)
assign_utterance_log_prob_obs(c) ==
    IF c.raised THEN [obj |-> c.obj, raised |-> TRUE]
    ELSE [obj |-> [c.obj EXCEPT !.utterance_log_prob_obs = c.table], raised |-> FALSE]

advance_listener(speaker, w, utt) ==
    assign_utterance_log_prob_obs(
        PragmaticSpeaker_compute_utterance_log_prob_obs(
            [speaker EXCEPT !.literal_listener =
                LiteralListener_listen_and_update(speaker.literal_listener, w, utt).obj],
            w, speaker.alpha))

\* the loop of log_likelihood_utt_seq from step t on, log_lik being the sum
\* so far: it returns -inf at the first impossible utterance
RECURSIVE utt_seq_loop(_, _, _, _, _, _, _)
\* (the rest of the loop once step t has advanced the listener, a being the
\* result of that)
utt_seq_advanced(a, w, obs_seq, utt_seq, t, log_lik, advanced) ==
    IF a.raised
    THEN [speaker |-> a.obj, raised |-> TRUE, advanced |-> advanced]
    ELSE utt_seq_loop(a.obj, w, obs_seq, utt_seq, t + 1, log_lik, advanced)

utt_seq_loop(speaker, w, obs_seq, utt_seq, t, log_lik, advanced) ==
    IF t > Len(obs_seq)
    THEN [speaker |-> speaker, raised |-> FALSE, ll |-> log_lik, advanced |-> advanced]
    ELSE LET log_p == speaker.utterance_log_prob_obs[utt_seq[t]][obs_seq[t]]
         IN IF log_p = RZero
            THEN [speaker |-> speaker, raised |-> FALSE, ll |-> RZero, advanced |-> advanced]
            ELSE IF ~speaker.update_internal
            THEN utt_seq_loop(speaker, w, obs_seq, utt_seq, t + 1,
                              RMul(log_lik, log_p), advanced)
            ELSE utt_seq_advanced(advance_listener(speaker, w, utt_seq[t]),
                                  w, obs_seq, utt_seq, t, RMul(log_lik, log_p),
                                  advanced + 1)

\* the collection loop of _dynamic_evaluate_sequence_all_alphas from step t
\* on: the utilities of the observation are copied, then the listener hears
\* the observed utterance whatever its utility
RECURSIVE collect_utilities(_, _, _, _, _, _)
\* (the rest of the loop once step t has advanced the listener, a being the
\* result of that)
utilities_collected(a, w, obs_seq, utt_seq, t, utilities_list) ==
    IF a.raised
    THEN [speaker |-> a.obj, raised |-> TRUE, advanced |-> t]
    ELSE collect_utilities(a.obj, w, obs_seq, utt_seq, t + 1, utilities_list)

collect_utilities(speaker, w, obs_seq, utt_seq, t, utilities_list) ==
    IF t > Len(obs_seq)
    THEN [speaker |-> speaker, raised |-> FALSE, utilities_list |-> utilities_list,
          advanced |-> t - 1]
    ELSE utilities_collected(
             advance_listener(speaker, w, utt_seq[t]), w, obs_seq, utt_seq, t,
             Append(utilities_list,
                    [u \in utterances(w) |-> speaker.utility[u][obs_seq[t]]]))

\* log P(u | O, alpha) from a copied utility vector, as the vectorized part
\* of _dynamic_evaluate_sequence_all_alphas computes it
dynamic_log_prob(utilities, alpha, utt) ==
    static_log_prob([u \in DOMAIN utilities |-> [o \in {1} |-> utilities[u]]], alpha, utt, 1)

\* the cumulative sum over the steps
RECURSIVE cumsum_log_probs(_, _, _, _)
cumsum_log_probs(utilities_list, alpha, utt_seq, T) ==
    IF T = 0 THEN ROne
    ELSE RMul(cumsum_log_probs(utilities_list, alpha, utt_seq, T - 1),
              dynamic_log_prob(utilities_list[T], alpha, utt_seq[T]))

\* the cumulative sum of _static_grid_search_multiT over the steps of one
\* sequence, every step read from the same utility table
RECURSIVE static_cumsum(_, _, _, _, _)
static_cumsum(utility_table, alpha, utt_seq, obs_seq, T) ==
    IF T = 0 THEN ROne
    ELSE RMul(static_cumsum(utility_table, alpha, utt_seq, obs_seq, T - 1),
              static_log_prob(utility_table, alpha, utt_seq[T], obs_seq[T]))

\* the record of an evaluation: the speaker instances it built and its value
evaluated(name, instances, raised, lls) ==
    [kind |-> "evaluated", by |-> name, obs_seq |-> fit.obs_seq, utt_seq |-> fit.utt_seq,
     instances |-> instances, raised |-> raised, lls |-> lls]

\* a call log_likelihood_utt_seq with a pragmatic speaker_config
evaluate_utt_seq(psi, alpha, update_internal) ==
    /\ fit.kind = "data"
    /\ op' = [name |-> "log_likelihood_utt_seq", psi |-> psi, alpha |-> alpha,
              update_internal |-> update_internal]
    /\ warned' = None
    /\ \E built \in {PragmaticSpeaker_new(world, "strat", psi, update_internal, alpha, 0,
                                          NoPrior)} :
          IF built.raised
          THEN ret' = Raise /\ fit' = evaluated("log_likelihood_utt_seq", <<>>, TRUE, <<>>)
          ELSE \E r \in {utt_seq_loop(built.obj, world, fit.obs_seq, fit.utt_seq, 1, ROne, 0)} :
                  /\ ret' = IF r.raised THEN Raise ELSE Return(r.ll)
                  /\ fit' = evaluated("log_likelihood_utt_seq",
                                      <<instance(built.obj, r.speaker, r.advanced, {alpha})>>,
                                      r.raised, IF r.raised THEN <<>> ELSE <<r.ll>>)
    /\ UNCHANGED <<world, memo, agent, softmax, sim>>

\* a call _static_grid_search_multiT for the sequence, Ts = [len]: the
\* reference speaker's utility table is read once and serves every candidate
static_reference_speaker(psi, include_determ) ==
    /\ fit.kind = "data"
    /\ op' = [name |-> "_static_grid_search_multiT", psi |-> psi,
              include_determ |-> include_determ]
    /\ warned' = None
    /\ \E built \in {PragmaticSpeaker_new(world, "strat", psi, FALSE, Alpha(1), 0, NoPrior)},
          alphas \in {grid_alphas(include_determ)} :
          IF built.raised
          THEN ret' = Raise /\ fit' = evaluated("_static_grid_search_multiT", <<>>, TRUE, <<>>)
          ELSE /\ ret' = Return(None)
               /\ fit' = evaluated("_static_grid_search_multiT",
                                   <<instance(built.obj, built.obj, 0, SeqToSet(alphas))>>,
                                   FALSE,
                                   [k \in DOMAIN alphas |->
                                       static_cumsum(built.obj.utility, alphas[k],
                                                     fit.utt_seq, fit.obs_seq,
                                                     Len(fit.obs_seq))])
    /\ UNCHANGED <<world, memo, agent, softmax, sim>>

\* a call _dynamic_evaluate_sequence_all_alphas(obs_seq, utt_seq, world, psi,
\* alphas, Ts = [len]): one speaker, built with alpha = 1.0, walks the
\* sequence and its copied utilities serve every alpha
dynamic_evaluate_sequence_all_alphas(psi, alphas) ==
    /\ fit.kind = "data"
    /\ op' = [name |-> "_dynamic_evaluate_sequence_all_alphas", psi |-> psi,
              alphas |-> alphas]
    /\ warned' = None
    /\ \E built \in {PragmaticSpeaker_new(world, "strat", psi, TRUE, Alpha(1), 0, NoPrior)} :
          IF built.raised
          THEN ret' = Raise
               /\ fit' = evaluated("_dynamic_evaluate_sequence_all_alphas", <<>>, TRUE, <<>>)
          ELSE \E r \in {collect_utilities(built.obj, world, fit.obs_seq, fit.utt_seq, 1,
                                           <<>>)} :
                  /\ ret' = IF r.raised THEN Raise ELSE Return(None)
                  /\ fit' = evaluated("_dynamic_evaluate_sequence_all_alphas",
                                      <<instance(built.obj, r.speaker, r.advanced,
                                                 SeqToSet(alphas))>>,
                                      r.raised,
                                      IF r.raised THEN <<>>
                                      ELSE [k \in DOMAIN alphas |->
                                               cumsum_log_probs(r.utilities_list, alphas[k],
                                                                fit.utt_seq,
                                                                Len(fit.obs_seq))])
    /\ UNCHANGED <<world, memo, agent, softmax, sim>>

\* the lists of temperatures handed to the dynamic evaluation: the grid, and
\* the grid followed by "determ"
AlphaLists == {grid_alphas(FALSE), grid_alphas(TRUE)}

InitEvaluate ==
    /\ world = WorldNew(1, 1)
    /\ op = [name |-> None] /\ ret = NoCall /\ warned = None
    /\ memo = NoMemo(FALSE)
    /\ agent = NoObject
    /\ softmax = NoObject /\ sim = NoObject
    /\ \E obs_seq \in [1..FitLen -> observations(world)],
          utt_seq \in [1..FitLen -> utterances(world)] :
          fit = [kind |-> "data", obs_seq |-> obs_seq, utt_seq |-> utt_seq]

NextEvaluate ==
    \/ \E psi \in VALID_PSI_TYPES, alpha \in Alphas, update_internal \in BOOLEAN :
          evaluate_utt_seq(psi, alpha, update_internal)
    \/ \E psi \in VALID_PSI_TYPES, include_determ \in BOOLEAN :
          static_reference_speaker(psi, include_determ)
    \/ \E psi \in VALID_PSI_TYPES, alphas \in AlphaLists :
          dynamic_evaluate_sequence_all_alphas(psi, alphas)

SpecEvaluate == InitEvaluate /\ [][NextEvaluate]_vars

(***************************************************************************)
(* Construction of a pragmatic listener on a World                         *)
(***************************************************************************)
RECURSIVE PragmaticListener_listen_and_update(_, _, _)
\* step 3 of listen_and_update for one embedded speaker: its internal
\* listener hears the utterance, then its utterance table is recomputed
advance_speaker(speaker, w, level, utterance) ==
    IF level = 1
    THEN assign_utterance_log_prob_obs(
             PragmaticSpeaker_compute_utterance_log_prob_obs(
                 [speaker EXCEPT !.literal_listener =
                     LiteralListener_listen_and_update(speaker.literal_listener, w, utterance).obj],
                 w, speaker.alpha))
    ELSE [obj |-> [speaker EXCEPT !.pragmatic_listener =
                      PragmaticListener_listen_and_update(speaker.pragmatic_listener, w, utterance).obj],
          raised |-> PragmaticListener_listen_and_update(speaker.pragmatic_listener, w, utterance).raised]

\* the end of step 3 and step 4: lik is what
\* _compute_utterance_log_likelihood_theta_psi_alpha gave for the speakers
\* of self; the posterior table is rebuilt from it and the joint belief
listener_rebuilt(self, w, lik) ==
    IF lik.raised THEN [obj |-> self, raised |-> TRUE]
    ELSE [obj |-> [self EXCEPT
                     !.utterance_log_likelihood_theta_psi_alpha = lik.table,
                     !.theta_psi_alpha_log_post_utterance =
                         compute_theta_psi_alpha_log_post_utterance(
                             lik.table, self.un_current_log_belief_theta_psi_alpha_joint, w,
                             self.psi_vals, self.alpha_vals)],
          raised |-> FALSE]

\* (advanced: what step 3 gave for every embedded speaker)
listener_with_advanced(self, w, advanced) ==
    IF \E k \in DOMAIN advanced : advanced[k].raised
    THEN [obj |-> [self EXCEPT !.pragmatic_speakers = [k \in DOMAIN advanced |-> advanced[k].obj]],
          raised |-> TRUE]
    ELSE listener_rebuilt(
             [self EXCEPT !.pragmatic_speakers = [k \in DOMAIN advanced |-> advanced[k].obj]],
             w,
             compute_utterance_log_likelihood_theta_psi_alpha(
                 [k \in DOMAIN advanced |-> advanced[k].obj], w))

\* (believed: self with the joint belief replaced by the slice of the
\* utterance)
listener_believed(believed, w, utterance) ==
    IF believed.update_internal
    THEN listener_with_advanced(believed, w,
             [k \in DOMAIN believed.pragmatic_speakers |->
                 advance_speaker(believed.pragmatic_speakers[k], w, believed.level, utterance)])
    ELSE [obj |-> [believed EXCEPT
                     !.theta_psi_alpha_log_post_utterance =
                         compute_theta_psi_alpha_log_post_utterance(
                             believed.utterance_log_likelihood_theta_psi_alpha,
                             believed.un_current_log_belief_theta_psi_alpha_joint, w,
                             believed.psi_vals, believed.alpha_vals)],
          raised |-> FALSE]

\* PragmaticListener_obs_n.listen_and_update: the object after the call and
\* whether the call raised
PragmaticListener_listen_and_update(self, w, utterance) ==
    IF utterance \notin utterances(w)
    THEN [obj |-> self, raised |-> TRUE]
    ELSE listener_believed(
             [self EXCEPT !.un_current_log_belief_theta_psi_alpha_joint =
                 self.theta_psi_alpha_log_post_utterance[utterance]],
             w, utterance)

\* the priors over the psi grid handed to the constructor: None, a valid
\* vector for the grid, and the all-zero vector
PsiPriors(omega) ==
    LET n_psi == IF omega = "strat" THEN Len(PSI_TYPES) ELSE 1
    IN {NoPrior,
        [i \in 1..n_psi |-> IF i = 1 THEN ROne ELSE RZero],
        [i \in 1..n_psi |-> RZero]}

\* alpha_vals: None (the grid is [alpha]), the empty list, and two values
AlphaVals == {NoAlphaVals, AlphaValsList(<<>>), AlphaValsList(<<Alpha(1), DETERM>>)}

\* the priors over the alpha grid: None, and half the mass on each of two
\* values (valid for the grid of two values only)
AlphaPriors == {NoPrior, <<Rat(1, 2), Rat(1, 2)>>}

\* a call PragmaticListener_obs_n(world, level, omega, update_internal, alpha,
\* beta = 0.0, ...) on a fresh World
PragmaticListener_init(level, omega, update_internal, alpha, initial_beliefs_theta, initial_beliefs_psi, alpha_vals, initial_beliefs_alpha) ==
    /\ agent = NoObject /\ ret = NoCall
    /\ op' = [name |-> "PragmaticListener_obs_n.__init__", level |-> level, omega |-> omega,
              update_internal |-> update_internal, alpha |-> alpha,
              initial_beliefs_theta |-> initial_beliefs_theta,
              initial_beliefs_psi |-> initial_beliefs_psi, alpha_vals |-> alpha_vals,
              initial_beliefs_alpha |-> initial_beliefs_alpha]
    /\ warned' = None
    /\ \E r \in {PragmaticListener_new(world, level, omega, update_internal, alpha, 0,
                                       initial_beliefs_theta, initial_beliefs_psi,
                                       alpha_vals, initial_beliefs_alpha)} :
          IF r.raised
          THEN ret' = Raise /\ agent' = agent
          ELSE /\ ret' = Return(None)
               /\ agent' = [kind |-> "PragmaticListener_obs_n", obj |-> r.obj, round |-> 0]
    /\ UNCHANGED <<world, memo, softmax, layers>>

\* a call listen_and_update(utterance) on the listener constructed
pragmatic_listener_listen_and_update(utterance) ==
    /\ agent.kind = "PragmaticListener_obs_n" /\ agent.round < MaxRounds
    /\ op' = [name |-> "PragmaticListener_obs_n.listen_and_update", utterance |-> utterance]
    /\ \E r \in {PragmaticListener_listen_and_update(agent.obj, world, utterance)} :
          /\ agent' = [agent EXCEPT !.obj = r.obj, !.round = @ + 1]
          /\ ret' = IF r.raised THEN Raise ELSE Return(None)
    /\ warned' = None
    /\ UNCHANGED <<world, memo, softmax, layers>>

InitListener ==
    /\ world = WorldNew(1, 1)
    /\ op = [name |-> None] /\ ret = NoCall /\ warned = None
    /\ memo = NoMemo(FALSE)
    /\ agent = NoObject
    /\ softmax = NoObject
    /\ NoLayers

NextListener ==
    \/ \E level \in 0..MaxLevel, omega \in VALID_OMEGA_TYPES \cup {"other"},
          update_internal \in BOOLEAN, alpha \in Alphas, initial_beliefs_theta \in Priors,
          alpha_vals \in AlphaVals, initial_beliefs_alpha \in AlphaPriors :
          \E initial_beliefs_psi \in PsiPriors(omega) :
             PragmaticListener_init(level, omega, update_internal, alpha,
                                    initial_beliefs_theta, initial_beliefs_psi, alpha_vals,
                                    initial_beliefs_alpha)
    \/ \E utterance \in utterances(world) \cup {UnknownUtterance} :
          pragmatic_listener_listen_and_update(utterance)

SpecListener == InitListener /\ [][NextListener]_vars

(***************************************************************************)
(* A PragmaticSpeaker_obs and a LiteralSpeaker constructed with the same   *)
(* prior and fed the same observations; the LiteralSpeaker is held in sim  *)
(* together with the prior and the observations fed.                       *)
(***************************************************************************)
\* PragmaticSpeaker_obs.__init__ and LiteralSpeaker.__init__ with one prior
paired_init(omega, psi, update_internal, alpha, beta, initial_beliefs_theta) ==
    /\ agent = NoObject /\ sim = NoObject
    /\ op' = [name |-> "PragmaticSpeaker_obs.__init__", omega |-> omega, psi |-> psi]
    /\ \E r \in {PragmaticSpeaker_new(world, omega, psi, update_internal, alpha, beta, initial_beliefs_theta)} :
          /\ warned' = r.warning
          /\ IF r.raised
             THEN ret' = Raise /\ agent' = agent /\ sim' = sim
             ELSE /\ ret' = Return(None)
                  /\ agent' = [kind |-> "PragmaticSpeaker_obs", obj |-> r.obj, round |-> 0]
                  /\ sim' = [kind |-> "LiteralSpeaker",
                             obj |-> LiteralSpeaker_new(world, initial_beliefs_theta).obj,
                             prior |-> LiteralSpeaker_new(world, initial_beliefs_theta).obj,
                             fed |-> <<>>]
    /\ UNCHANGED <<world, memo, softmax, fit>>

\* update_and_speak of both speakers with one observation
paired_update_and_speak(observation) ==
    /\ agent.kind = "PragmaticSpeaker_obs" /\ agent.round < MaxRounds
    /\ sim.kind = "LiteralSpeaker"
    /\ op' = [name |-> "PragmaticSpeaker_obs.update_and_speak", observation |-> observation]
    /\ \E r \in PragmaticSpeaker_update_and_speak(agent.obj, world, observation) :
          /\ agent' = [agent EXCEPT !.obj = r.obj, !.round = @ + 1]
          /\ ret' = IF r.raised THEN Raise ELSE Return(r.value)
    /\ sim' = [sim EXCEPT !.obj = LiteralSpeaker_update_and_speak(sim.obj, world, observation).obj,
                          !.fed = Append(@, observation)]
    /\ warned' = None
    /\ UNCHANGED <<world, memo, softmax, fit>>

InitPaired ==
    /\ \E nm \in Shapes : nm[1] <= MaxPragmaticN /\ world = WorldNew(nm[1], nm[2])
    /\ op = [name |-> None] /\ ret = NoCall /\ warned = None
    /\ memo = NoMemo(FALSE)
    /\ agent = NoObject
    /\ softmax = NoObject
    /\ NoLayers

NextPaired ==
    \/ \E omega \in VALID_OMEGA_TYPES, psi \in VALID_PSI_TYPES, update_internal \in BOOLEAN,
          alpha \in Alphas, beta \in Betas, prior \in Priors :
          paired_init(omega, psi, update_internal, alpha, beta, prior)
    \/ \E observation \in observations(world) \cup {UnknownObservation(world)} :
          paired_update_and_speak(observation)

SpecPaired == InitPaired /\ [][NextPaired]_vars

(***************************************************************************)
(* A LiteralListener together with a record, held in sim, of the listener  *)
(* as constructed and of the utterances it has heard                       *)
(***************************************************************************)
\* LiteralListener.__init__
heard_init(initial_beliefs_theta) ==
    /\ agent = NoObject /\ sim = NoObject
    /\ op' = [name |-> "LiteralListener.__init__"]
    /\ \E r \in {LiteralListener_new(world, initial_beliefs_theta)} :
          IF r.raised
          THEN ret' = Raise /\ agent' = agent /\ sim' = sim
          ELSE /\ ret' = Return(None)
               /\ agent' = [kind |-> "LiteralListener", obj |-> r.obj, round |-> 0]
               /\ sim' = [kind |-> "heard", constructed |-> r.obj, heard |-> <<>>]
    /\ warned' = None
    /\ UNCHANGED <<world, memo, softmax, fit>>

\* LiteralListener.listen_and_update
heard_listen_and_update(utterance) ==
    /\ agent.kind = "LiteralListener" /\ agent.round < MaxRounds
    /\ sim.kind = "heard"
    /\ op' = [name |-> "LiteralListener.listen_and_update", utterance |-> utterance]
    /\ \E r \in {LiteralListener_listen_and_update(agent.obj, world, utterance)} :
          /\ agent' = [agent EXCEPT !.obj = r.obj, !.round = @ + 1]
          /\ ret' = IF r.raised THEN Raise ELSE Return(None)
          /\ sim' = IF r.raised THEN sim ELSE [sim EXCEPT !.heard = Append(@, utterance)]
    /\ warned' = None
    /\ UNCHANGED <<world, memo, softmax, fit>>

InitHeard ==
    /\ \E nm \in Shapes : world = WorldNew(nm[1], nm[2])
    /\ op = [name |-> None] /\ ret = NoCall /\ warned = None
    /\ memo = NoMemo(FALSE)
    /\ agent = NoObject
    /\ softmax = NoObject
    /\ NoLayers

NextHeard ==
    \/ \E prior \in Priors : heard_init(prior)
    \/ \E utterance \in utterances(world) \cup {UnknownUtterance} :
          heard_listen_and_update(utterance)

SpecHeard == InitHeard /\ [][NextHeard]_vars

(***************************************************************************)
(* _generate_utterances_for_single_obs_seq_multiT for one utterance        *)
(* sequence, and log_likelihood_utt_seq on what it recorded.  The record   *)
(* is held in sim, the evaluation in fit.                                  *)
(***************************************************************************)
\* the speaker configurations: literal, and pragmatic with beta left out
literal_config(prior) == [speaker_type |-> "literal", initial_beliefs_theta |-> prior]
pragmatic_config(omega, psi, update_internal, alpha, prior) ==
    [speaker_type |-> "pragmatic", omega |-> omega, psi |-> psi,
     update_internal |-> update_internal, alpha |-> alpha, initial_beliefs_theta |-> prior]

\* the fresh speaker both functions create for a configuration
config_speaker(w, config) ==
    IF config.speaker_type = "literal"
    THEN LiteralSpeaker_new(w, config.initial_beliefs_theta)
    ELSE PragmaticSpeaker_new(w, config.omega, config.psi, config.update_internal,
                              config.alpha, 0, config.initial_beliefs_theta)

\* speaker.update_and_speak(obs): the results the call can have
speak(speaker, is_literal, w, obs) ==
    IF is_literal
    THEN IF LiteralSpeaker_update_and_speak(speaker, w, obs).raised
         THEN {[obj |-> LiteralSpeaker_update_and_speak(speaker, w, obs).obj, raised |-> TRUE]}
         ELSE {[obj |-> LiteralSpeaker_update_and_speak(speaker, w, obs).obj,
                raised |-> FALSE, value |-> u] :
                  u \in LiteralSpeaker_update_and_speak(speaker, w, obs).returns}
    ELSE PragmaticSpeaker_update_and_speak(speaker, w, obs)

RECURSIVE generate_loop(_, _, _, _, _, _)
RECURSIVE cumsum(_, _)
\* variant of the step of the generator that looks the log probability up in
\* the speaker's table after update_and_speak
generate_spoken_after(r, log_probs_for_obs, is_literal, w, obs_seq, utt_seq, log_probs_per_step) ==
    IF r.raised THEN {[raised |-> TRUE]}
    ELSE generate_loop(r.obj, is_literal, w, obs_seq, Append(utt_seq, r.value),
                       Append(log_probs_per_step,
                              r.obj.utterance_log_prob_obs[r.value][obs_seq[Len(utt_seq) + 1]]))

\* the rest of the loop over obs_seq once update_and_speak has given r;
\* log_probs_for_obs is the column of the observation copied before the call
generate_spoken(r, log_probs_for_obs, is_literal, w, obs_seq, utt_seq, log_probs_per_step) ==
    IF r.raised THEN {[raised |-> TRUE]}
    ELSE generate_loop(r.obj, is_literal, w, obs_seq, Append(utt_seq, r.value),
                       Append(log_probs_per_step, log_probs_for_obs[r.value]))

\* the loop over obs_seq: every (utt_seq, log_probs_per_step) it can end with
generate_loop(speaker, is_literal, w, obs_seq, utt_seq, log_probs_per_step) ==
    IF Len(utt_seq) = Len(obs_seq)
    THEN {[raised |-> FALSE, utt_seq |-> utt_seq, log_probs_per_step |-> log_probs_per_step]}
    ELSE UNION {generate_spoken(r,
                    [u \in utterances(w) |->
                        speaker.utterance_log_prob_obs[u][obs_seq[Len(utt_seq) + 1]]],
                    is_literal, w, obs_seq, utt_seq, log_probs_per_step) :
                  r \in speak(speaker, is_literal, w, obs_seq[Len(utt_seq) + 1])}

\* np.cumsum(log_probs_array)[T - 1]
cumsum(log_probs_array, T) == IF T = 0 THEN ROne ELSE RMul(cumsum(log_probs_array, T - 1), log_probs_array[T])

\* the record of one utterance sequence
utt_record(config, obs_seq, Ts, g) ==
    [kind |-> "utt_record", config |-> config, obs_seq |-> obs_seq, utt_seq |-> g.utt_seq,
     log_lik_true_speaker |-> [T \in Ts |-> cumsum(g.log_probs_per_step, T)]]

\* a call _generate_utterances_for_single_obs_seq_multiT(world, obs_seq,
\* config, n_utt_seq = 1, Ts)
generate_single(config, obs_seq, Ts) ==
    /\ sim = NoObject /\ ret = NoCall
    /\ op' = [name |-> "_generate_utterances_for_single_obs_seq_multiT", config |-> config,
              obs_seq |-> obs_seq, Ts |-> Ts]
    /\ warned' = None
    /\ \E built \in {config_speaker(world, config)} :
          IF built.raised
          THEN ret' = Raise /\ sim' = sim
          ELSE \E g \in generate_loop(built.obj, config.speaker_type = "literal", world,
                                      obs_seq, <<>>, <<>>) :
                  IF g.raised
                  THEN ret' = Raise /\ sim' = sim
                  ELSE ret' = Return(None) /\ sim' = utt_record(config, obs_seq, Ts, g)
    /\ UNCHANGED <<world, memo, agent, softmax, fit>>

\* the speaker of log_likelihood_utt_seq as its loop reads it: the table,
\* and update_internal, which is False for a literal speaker
loop_speaker(config, obj) ==
    IF config.speaker_type = "literal"
    THEN [utterance_log_prob_obs |-> obj.utterance_log_prob_obs, update_internal |-> FALSE]
    ELSE obj

\* log_likelihood_utt_seq(world, obs_seq, utt_seq, config), built being the
\* speaker it constructs
log_likelihood_of_record(w, obs_seq, utt_seq, config, built) ==
    IF Len(obs_seq) = 0 \/ Len(obs_seq) # Len(utt_seq) \/ built.raised
    THEN [raised |-> TRUE]
    ELSE IF \E t \in 1..Len(obs_seq) :
               obs_seq[t] \notin observations(w) \/ utt_seq[t] \notin utterances(w)
    THEN [raised |-> TRUE]
    ELSE utt_seq_loop(loop_speaker(config, built.obj), w, obs_seq, utt_seq, 1, ROne, 0)

\* a call log_likelihood_utt_seq(world, obs_seq[:T], utt_seq[:T], config) on
\* the record generated, for a T of Ts
replay(T) ==
    /\ sim.kind = "utt_record" /\ T \in DOMAIN sim.log_lik_true_speaker
    /\ op' = [name |-> "log_likelihood_utt_seq", T |-> T]
    /\ warned' = None
    /\ \E r \in {log_likelihood_of_record(world, SubSeq(sim.obs_seq, 1, T),
                                           SubSeq(sim.utt_seq, 1, T), sim.config,
                                           config_speaker(world, sim.config))} :
          /\ ret' = IF r.raised THEN Raise ELSE Return(r.ll)
          /\ fit' = [kind |-> "replayed", T |-> T, raised |-> r.raised,
                     ll |-> IF r.raised THEN None ELSE r.ll]
    /\ UNCHANGED <<world, memo, agent, softmax, sim>>

\* the priors of the configurations: None, and half the mass on each end of
\* the grid
ConfigPriors == {NoPrior, [t \in ThetaIdx |-> IF t = 1 \/ t = ThetaDen + 1 THEN Rat(1, 2) ELSE RZero]}

\* the speaker configurations generated from
Configs ==
    {literal_config(prior) : prior \in ConfigPriors}
    \cup {pragmatic_config(omega, psi, update_internal, alpha, prior) :
             omega \in VALID_OMEGA_TYPES, psi \in VALID_PSI_TYPES,
             update_internal \in BOOLEAN, alpha \in Alphas, prior \in ConfigPriors}

InitReplay ==
    /\ \E nm \in Shapes : nm[1] <= MaxPragmaticN /\ world = WorldNew(nm[1], nm[2])
    /\ op = [name |-> None] /\ ret = NoCall /\ warned = None
    /\ memo = NoMemo(FALSE)
    /\ agent = NoObject
    /\ softmax = NoObject
    /\ NoLayers

NextReplay ==
    \/ \E config \in Configs, obs_seq \in [1..FitLen -> observations(world)],
          Ts \in {{FitLen}, 1..FitLen} :
          generate_single(config, obs_seq, Ts)
    \/ \E T \in 1..FitLen : replay(T)

SpecReplay == InitReplay /\ [][NextReplay]_vars

(***************************************************************************)
(* End-to-end scenario A: one update_and_speak of a LiteralSpeaker          *)
(***************************************************************************)
\* the frequency tuple of the scenario
ScenarioTuple == <<0, 1, 2, 1, 0>>

\* the Worlds of the scenario: World(n=1, m=4), and World(n=4, m=4), of which
\* the tuple is an outcome
ScenarioWorlds == {WorldNew(1, 4), WorldNew(4, 4)}

\* the observations passed: the tuple of the scenario and outcomes of the
\* one World or the other
ScenarioObservations ==
    {ScenarioTuple, <<1, 0, 0, 0, 0>>, <<0, 0, 0, 0, 1>>, <<4, 0, 0, 0, 0>>, <<0, 0, 0, 0, 4>>}

\* the first update_and_speak of a freshly constructed LiteralSpeaker
scenario_update_and_speak(observation) ==
    /\ agent.kind = "LiteralSpeaker" /\ agent.round = 0
    /\ speaker_update_and_speak(observation)

InitScenario ==
    /\ world \in ScenarioWorlds
    /\ op = [name |-> None] /\ ret = NoCall /\ warned = None
    /\ memo = NoMemo(FALSE)
    /\ agent = NoObject
    /\ softmax = NoObject
    /\ NoLayers

NextScenario ==
    \/ \E prior \in Priors : LiteralSpeaker_init(prior)
    \/ \E observation \in ScenarioObservations : scenario_update_and_speak(observation)

SpecScenario == InitScenario /\ [][NextScenario]_vars

(***************************************************************************)
(* World._validate_theta_values.  A supplied theta is the triple           *)
(* <<g, k, e>> standing for g / ThetaDen + k * 1e-10 + e * eps, where eps  *)
(* is an offset below half of the tenth decimal; triples compare           *)
(* lexicographically, as the numbers they stand for do.                    *)
(***************************************************************************)
\* length of the longest theta array supplied to the constructor
MaxThetaLen == 2

\* x < y on supplied thetas
FloatLess(x, y) ==
    \/ x[1] < y[1]
    \/ x[1] = y[1] /\ x[2] < y[2]
    \/ x[1] = y[1] /\ x[2] = y[2] /\ x[3] < y[3]

\* 0 <= x <= 1
in_unit_interval(x) == ~FloatLess(x, <<0, 0, 0>>) /\ ~FloatLess(<<ThetaDen, 0, 0>>, x)

\* np.round(x, decimals=10): the offset below the tenth decimal is dropped
np_round(x) == <<x[1], x[2], 0>>

RECURSIVE sorted_values(_)
\* the values of the set S in increasing order
sorted_values(S) ==
    IF S = {} THEN <<>>
    ELSE LET least == CHOOSE x \in S : \A y \in S : ~FloatLess(y, x)
         IN <<least>> \o sorted_values(S \ {least})

\* variant of np.unique that returns the array as it is
np_unique_asis(a) == a

\* np.unique(a): the distinct values of a, sorted
np_unique(a) == sorted_values(SeqToSet(a))

\* a with np.round applied to every item
rounded(a) == [i \in 1..Len(a) |-> np_round(a[i])]

\* World._validate_theta_values for a supplied array (is_ndarray says whether
\* the argument is a numpy array): the grid returned, or raised
validate_theta_values(is_ndarray, a) ==
    IF ~is_ndarray THEN [raised |-> TRUE, warning |-> None, grid |-> <<>>]
    ELSE IF ~(\A i \in 1..Len(a) : in_unit_interval(a[i]))
         THEN [raised |-> TRUE, warning |-> None, grid |-> <<>>]
    ELSE IF a # np_unique(a) THEN [raised |-> TRUE, warning |-> None, grid |-> <<>>]
    ELSE [raised |-> FALSE,
          warning |-> IF a = rounded(a) THEN None
                      ELSE IF rounded(a) # np_unique(rounded(a))
                           THEN "rounded theta values are duplicating"
                           ELSE "theta values above precision is rounded",
          grid |-> np_unique(rounded(a))]

\* self.theta_values = self._validate_theta_values(theta_values) of
\* World.__init__; the grid the World stores is the value returned
World_validate_theta_values(is_ndarray, a) ==
    /\ ret = NoCall
    /\ op' = [name |-> "World._validate_theta_values", is_ndarray |-> is_ndarray,
              theta_values |-> a]
    /\ \E r \in {validate_theta_values(is_ndarray, a)} :
          /\ warned' = r.warning
          /\ ret' = IF r.raised THEN Raise ELSE Return(r.grid)
    /\ UNCHANGED <<world, memo, agent, softmax, layers>>

\* the thetas supplied: around every grid point, one tenth-decimal step and
\* one offset below it to either side
SuppliedThetas == (0..ThetaDen) \X {-1, 0, 1} \X {-1, 0, 1}

\* the arrays supplied
SuppliedArrays == UNION {[1..len -> SuppliedThetas] : len \in 0..MaxThetaLen}

InitTheta ==
    /\ world = WorldNew(1, 1)
    /\ op = [name |-> None] /\ ret = NoCall /\ warned = None
    /\ memo = NoMemo(FALSE)
    /\ agent = NoObject
    /\ softmax = NoObject
    /\ NoLayers

NextTheta ==
    \E is_ndarray \in BOOLEAN, a \in SuppliedArrays :
        World_validate_theta_values(is_ndarray, a)

SpecTheta == InitTheta /\ [][NextTheta]_vars

(***************************************************************************)
(* Claims about World                                                      *)
(***************************************************************************)

\* C1: for every World constructed with n >= 1 and m >= 1, every outcome
\* tuple has at least one utterance whose truth-table entry is 1, so the
\* constructor never fails on the coverage check.
C1_Coverage ==
    /\ ~world.failed
    /\ \A o \in observations(world) :
          \E u \in utterances(world) : world.utterance_truth[u][o] = 1

\* a World with several experiments (two-quantifier utterances) was built,
\* and its truth table has true and false cells in one column
C1_Witness ==
    /\ world.n > 1
    /\ ~world.failed
    /\ \E o \in observations(world) : \E u1, u2 \in utterances(world) :
          world.utterance_truth[u1][o] = 1 /\ world.utterance_truth[u2][o] = 0

\* C7: a World is immutable after construction: no operation of World
\* changes any state held by the World object.
C7_WorldImmutable == [][world' = world]_vars

\* C8: two calls of World.sample with the same grid theta, the same integer
\* seed and reuse=False return the same outcome, whatever other sample calls
\* happen before or between them.
C8_SampleDeterministic ==
    [][(/\ op'.name = "sample" /\ ret'.status = "ok" /\ ~op'.reuse
        /\ memo.set /\ op'.theta = memo.theta /\ op'.seed = memo.seed)
       => ret'.value = memo.outcome]_vars

\* the remembered call was repeated after a reuse=True call had cached and
\* advanced a generator of the same seed
C8_Witness ==
    /\ memo.set /\ memo.again
    /\ op.name = "sample" /\ ~op.reuse /\ op.seed = memo.seed /\ op.theta = memo.theta
    /\ world.has_cached_rng /\ world.cached_seed = memo.seed /\ world.cached_rng.pos > 0

\* the outcomes a draw from generator g can give at the grid theta nearest to theta
C9_Draws(g, theta) ==
    {rng_choice(world, closest_theta_idx(world, theta), v) : v \in next_variates(g)}

\* C9: World.sample with reuse=True warns, creates a generator from the
\* requested seed and caches it with that seed whenever no generator is cached
\* or the cached seed differs; when the cached seed equals the requested seed it
\* draws from the cached generator without a warning and leaves the cache in
\* place; with reuse=False the cache is neither used nor changed.
C9_ReuseCache ==
    [][(op'.name = "sample" /\ ret'.status = "ok" /\ op' # op) =>
        IF op'.reuse
        THEN IF world.has_cached_rng /\ world.cached_seed = op'.seed
             THEN /\ warned' = None
                  /\ ret'.value \in C9_Draws(world.cached_rng, op'.theta)
                  /\ world'.has_cached_rng /\ world'.cached_seed = world.cached_seed
                  /\ world'.cached_rng = advance(world.cached_rng)
             ELSE /\ warned' # None
                  /\ ret'.value \in C9_Draws(default_rng(op'.seed), op'.theta)
                  /\ world'.has_cached_rng /\ world'.cached_seed = op'.seed
                  /\ world'.cached_rng = advance(default_rng(op'.seed))
        ELSE /\ warned' = None
             /\ ret'.value \in C9_Draws(default_rng(op'.seed), op'.theta)
             /\ world' = world]_vars

\* a reuse=True call found a generator cached under another seed, warned and
\* switched the cache to the requested seed
C9_Witness ==
    /\ op.name = "sample" /\ op.reuse /\ ret.status = "ok"
    /\ warned = "seed mismatch"
    /\ world.has_cached_rng /\ world.cached_seed = op.seed

(***************************************************************************)
(* Claims about the agents                                                 *)
(***************************************************************************)
UpdateOps == {"LiteralSpeaker.update_and_speak", "LiteralListener.listen_and_update",
              "PragmaticSpeaker_obs.update_and_speak"}

\* C2: after construction and after every sequence of update_and_speak /
\* listen_and_update calls, the belief of a LiteralSpeaker, LiteralListener or
\* PragmaticSpeaker_obs built with a valid prior keeps mass on some theta, and
\* current_belief_theta sums to 1.
C2_BeliefValid ==
    agent # NoObject =>
        /\ \E t \in ThetaIdx : agent_belief(agent)[t] # RZero
        /\ RSumOver(agent_belief(agent), ThetaIdx) = ROne

\* C3: whenever update_and_speak or listen_and_update raises, the agent is
\* left exactly as it was before the call (beliefs, embedded agents and every
\* derived table).
C3_Atomic ==
    [][(op'.name \in UpdateOps /\ ret'.status = "error") => agent'.obj = agent.obj]_vars

\* C4: every utterance LiteralSpeaker.update_and_speak can return for an
\* observation of the World has truth-table entry 1 for it, and every
\* utterance true of the observation can be returned.
C4_TrueUtterances ==
    [][(op'.name = "LiteralSpeaker.update_and_speak" /\ ret'.status = "ok") =>
        /\ world.utterance_truth[ret'.value][op'.observation] = 1
        /\ LiteralSpeaker_update_and_speak(agent.obj, world, op'.observation).returns
              = {u \in utterances(world) : world.utterance_truth[u][op'.observation] = 1}]_vars

\* a literal speaker on a World with several experiments returned, in its
\* second round, an utterance for an observation that some utterances are
\* false of
C4_Witness ==
    /\ agent.kind = "LiteralSpeaker" /\ agent.round = 2 /\ world.n > 1
    /\ op.name = "LiteralSpeaker.update_and_speak" /\ ret.status = "ok"
    /\ world.utterance_truth[ret.value][op.observation] = 1
    /\ \E u \in utterances(world) : world.utterance_truth[u][op.observation] = 0

\* C5: in every configuration and every round, every literally false
\* (utterance, observation) cell of the utility of a PragmaticSpeaker_obs is
\* -inf and has probability 0 in the utterance-given-observation table, and
\* update_and_speak(observation) never returns an utterance false of observation.
C5_NeverFalse ==
    agent.kind = "PragmaticSpeaker_obs" =>
        /\ \A u \in utterances(world), o \in observations(world) :
              world.utterance_truth[u][o] = 0 =>
                  /\ agent.obj.utility[u][o] = RZero
                  /\ agent.obj.utterance_log_prob_obs[u][o] = RZero
        /\ (op.name = "PragmaticSpeaker_obs.update_and_speak" /\ ret.status = "ok") =>
              world.utterance_truth[ret.value][op.observation] = 1

\* a purely persuasive speaker (psi = pers+, beta = 0) that updates its
\* internal listener returned an utterance in its second round, while its
\* persuasiveness table gives false utterances a finite value
C5_Witness ==
    /\ agent.kind = "PragmaticSpeaker_obs" /\ agent.round = 2
    /\ agent.obj.psi = "pers+" /\ agent.obj.beta = 0 /\ agent.obj.update_internal
    /\ op.name = "PragmaticSpeaker_obs.update_and_speak" /\ ret.status = "ok"
    /\ \E u \in utterances(world) :
          /\ world.utterance_truth[u][op.observation] = 0
          /\ agent.obj.log_persuasiveness[u][op.observation] # RZero

\* the posterior table a fresh computation gives from the World tables and belief
fresh_theta_log_post_utterance(w, belief) ==
    compute_theta_log_post_utterance(
        compute_utterance_log_likelihood_theta(
            LiteralSpeaker_compute_utterance_log_prob_obs(w.utterance_truth),
            w.obs_log_likelihood_theta),
        belief)

\* the pragmatic speaker's tables a fresh computation gives from the World
\* tables and the current belief of its literal listener
fresh_pragmatic_tables(obj, w) ==
    PragmaticSpeaker_compute_utterance_log_prob_obs(
        [obj EXCEPT !.literal_listener.theta_log_post_utterance =
            fresh_theta_log_post_utterance(w, obj.literal_listener.un_current_log_belief)],
        w, obj.alpha)

\* C6: after construction and after every update_and_speak / listen_and_update
\* call that returns normally, the posterior table of a LiteralListener equals
\* the one computed afresh from its current belief, and utility and
\* utterance_log_prob_obs of a PragmaticSpeaker_obs equal the ones computed
\* afresh from the current belief of its literal listener.
C6_TablesFresh ==
    ret.status = "ok" =>
        /\ agent.kind = "LiteralListener" =>
              agent.obj.theta_log_post_utterance
                 = fresh_theta_log_post_utterance(world, agent.obj.un_current_log_belief)
        /\ agent.kind = "PragmaticSpeaker_obs" =>
              /\ ~fresh_pragmatic_tables(agent.obj, world).raised
              /\ agent.obj.utility = fresh_pragmatic_tables(agent.obj, world).obj.utility
              /\ agent.obj.utterance_log_prob_obs
                    = fresh_pragmatic_tables(agent.obj, world).table

\* a pragmatic speaker that updates its internal listener returned from its
\* second round with a listener belief that is no longer the uniform prior
C6_Witness ==
    /\ agent.kind = "PragmaticSpeaker_obs" /\ agent.round = 2 /\ agent.obj.update_internal
    /\ op.name = "PragmaticSpeaker_obs.update_and_speak" /\ ret.status = "ok"
    /\ \E t1, t2 \in ThetaIdx :
          agent.obj.literal_listener.un_current_log_belief[t1]
             # agent.obj.literal_listener.un_current_log_belief[t2]

(***************************************************************************)
(* Claims about the deterministic softmax                                  *)
(***************************************************************************)

\* C10: with the deterministic alpha, every utility column with a finite
\* entry gets probability exactly 1/k on each of the k rows that attain the
\* column maximum and probability 0 on every other row.
C10_DetermArgmax ==
    (softmax.kind \notin {None, "input"} /\ ~softmax.raised) =>
        \A j \in cols(softmax.X) :
            (\E i \in rows(softmax.X) : softmax.X[i][j] # NegInf) =>
                LET col_max == column_max(softmax.X)[j]
                    k == Cardinality({i \in rows(softmax.X) : softmax.X[i][j] = col_max})
                IN \A i \in rows(softmax.X) :
                      softmax.log_prob[i][j]
                         = IF softmax.X[i][j] = col_max THEN Rat(1, k) ELSE RZero

(***************************************************************************)
(* Claims about log_column_softmax                                         *)
(***************************************************************************)

\* C11: log_column_softmax raises, and returns no table, exactly when some
\* column of the utility matrix is entirely -inf, for a positive real alpha
\* and for the deterministic alpha alike; a table whose columns all have a
\* finite entry is never rejected.
C11_RejectAllNegInf ==
    softmax.kind = "log_column_softmax" =>
        LET some_col_all_neg_inf ==
                \E j \in DOMAIN softmax.X[1] : \A i \in DOMAIN softmax.X : softmax.X[i][j] = RZero
        IN /\ softmax.raised <=> some_col_all_neg_inf
           /\ softmax.raised => (ret = Raise /\ "log_prob" \notin DOMAIN softmax)
           /\ ~softmax.raised => (ret = Return(None) /\ "log_prob" \in DOMAIN softmax)

\* the softmax with a positive real alpha has rejected a table that has one
\* column entirely -inf and another column with a finite entry
C11_Witness ==
    /\ softmax.kind = "log_column_softmax"
    /\ ~op.alpha.determ
    /\ softmax.raised
    /\ \E j \in DOMAIN softmax.X[1] : \A i \in DOMAIN softmax.X : softmax.X[i][j] = RZero
    /\ \E j \in DOMAIN softmax.X[1] : \E i \in DOMAIN softmax.X : softmax.X[i][j] # RZero

(***************************************************************************)
(* Claims about the utterance generation                                   *)
(***************************************************************************)

RECURSIVE seeded_utt_seq(_, _, _, _)
\* the utterance sequence a speaker produces for obs_seq when every draw
\* comes from the generator g and nothing else draws from g
seeded_utt_seq(w, speaker, obs_seq, g) ==
    IF obs_seq = <<>> THEN <<>>
    ELSE LET r == LiteralSpeaker_update_and_speak(speaker, w, Head(obs_seq))
             utt == random_choice(restrict(utterance_list(w.n), r.returns),
                                  stream(g.seed[1], g.pos))
         IN <<utt>> \o seeded_utt_seq(w, r.obj, Tail(obs_seq), advance(g))

\* C12: with a non-None random_seed, the utterance sequences stored by
\* generate_utterances_for_observations_multiT are the same for every n_jobs,
\* backend and interleaving of the tasks: each stored sequence is the one its
\* own utt_seed yields on a fresh speaker, whatever the other tasks did.
C12_SeedOnly ==
    (sim.phase = "stored" /\ sim.random_seed # NoSeed) =>
        \A i \in DOMAIN sim.utterances : \A k \in DOMAIN sim.utterances[i] :
            sim.utterances[i][k].utt_seq
               = seeded_utt_seq(world, LiteralSpeaker_new(world, NoPrior).obj,
                                sim.obs_seqs[i], default_rng(sim.utterances[i][k].utt_seed))

\* C13: within one call with a non-None random_seed and an accepted
\* n_utt_seq, no two different (task index, utterance-sequence index) pairs
\* receive the same utt_seed.
C13_SeedsDisjoint ==
    (sim.phase = "running" /\ sim.random_seed # NoSeed) =>
        Cardinality({utt_seed(sim.tasks[i].base_seed, k) :
                        i \in DOMAIN sim.tasks, k \in 0..(sim.n_utt_seq - 1)})
           = Len(sim.tasks) * sim.n_utt_seq

(***************************************************************************)
(* Claims about the fitting layer                                          *)
(***************************************************************************)

\* C14: the temperature a grid search reports as optimal has a sequence
\* log-likelihood, as log_likelihood_utt_seq evaluates it, that is at least
\* the log-likelihood of every candidate tested (the grid points and, with
\* include_determ, "determ"), and the reported maximum is the log-likelihood
\* at the reported temperature.
C14_GridOptimal ==
    fit.kind \in {"_static_grid_search_multiT", "log_likelihood_alpha_opt_utt_seq"} =>
        LET ll_at(alpha) == guarded_log_likelihood(fit.X, alpha, fit.utt, fit.obs)
        IN /\ \A k \in DOMAIN fit.alphas : RLeq(ll_at(fit.alphas[k]), ll_at(fit.optimal_alpha))
           /\ fit.max_log_lik = ll_at(fit.optimal_alpha)


(***************************************************************************)
(* Claims about the speakers of the fitting layer                          *)
(***************************************************************************)
\* C15: the fitting layer never mutates a speaker instance shared between
\* likelihood evaluations at different temperatures: a speaker whose
\* embedded listener was advanced during an evaluation served exactly one
\* temperature, and a speaker that served several temperatures is the object
\* its constructor returned
C15_NoSharedMutation ==
    fit.kind = "evaluated" =>
        \A k \in DOMAIN fit.instances :
            LET s == fit.instances[k]
            IN /\ s.advanced > 0 => Cardinality(s.temperatures) = 1
               /\ Cardinality(s.temperatures) > 1 => s.speaker = s.built

(***************************************************************************)
(* Claims about PragmaticListener_obs_n                                    *)
(***************************************************************************)
\* the grids of the constructor call recorded in op, and whether its three
\* priors pass validation
C16_psi_vals == IF op.omega = "strat" THEN PSI_TYPES ELSE <<"inf">>
C16_alpha_vals == IF op.alpha_vals.given THEN op.alpha_vals.vals ELSE <<op.alpha>>
C16_ValidCall ==
    /\ op.name = "PragmaticListener_obs_n.__init__"
    /\ op.omega \in VALID_OMEGA_TYPES
    /\ ~listener_log_prior(op.initial_beliefs_theta, Len(world.theta_values)).raised
    /\ ~listener_log_prior(op.initial_beliefs_psi, Len(C16_psi_vals)).raised
    /\ ~listener_log_prior(op.initial_beliefs_alpha, Len(C16_alpha_vals)).raised

\* C16: constructing PragmaticListener_obs_n with level = 1, omega in {coop,
\* strat}, a valid alpha and default or valid priors completes without error,
\* holds one PragmaticSpeaker_obs per (psi, alpha) pair of its grids, and
\* leaves the joint belief equal to the outer sum of the three log-priors,
\* uniform by default
C16_Level1Constructs ==
    (C16_ValidCall /\ op.level = 1) =>
        /\ ret = Return(None)
        /\ agent.kind = "PragmaticListener_obs_n"
        /\ DOMAIN agent.obj.pragmatic_speakers = speaker_keys(C16_psi_vals, C16_alpha_vals)
        /\ \A k \in DOMAIN agent.obj.pragmatic_speakers :
              /\ agent.obj.pragmatic_speakers[k].psi = k[1]
              /\ agent.obj.pragmatic_speakers[k].alpha = k[2]
        /\ agent.obj.un_current_log_belief_theta_psi_alpha_joint =
              joint_log(listener_log_prior(op.initial_beliefs_theta,
                                           Len(world.theta_values)).belief,
                        listener_log_prior(op.initial_beliefs_psi, Len(C16_psi_vals)).belief,
                        listener_log_prior(op.initial_beliefs_alpha,
                                           Len(C16_alpha_vals)).belief)

\* the chain of embedded listeners below a listener object: at level 1 the
\* speakers hold the literal speaker and the literal listener, above it every
\* speaker wraps a listener exactly one level lower
RECURSIVE C17_chain(_)
C17_chain(listener) ==
    \A k \in DOMAIN listener.pragmatic_speakers :
        LET speaker == listener.pragmatic_speakers[k]
        IN IF listener.level = 1
           THEN {"literal_speaker", "literal_listener"} \subseteq DOMAIN speaker
           ELSE /\ "pragmatic_listener" \in DOMAIN speaker
                /\ speaker.pragmatic_listener.level = listener.level - 1
                /\ C17_chain(speaker.pragmatic_listener)

\* C17: for every level n > 1 the construction of PragmaticListener_obs_n
\* terminates and yields a level-n listener whose embedded speakers each wrap
\* a level-(n-1) listener, the chain of levels strictly decreasing down to
\* level 1, where the speakers are backed by the literal pair
C17_LevelChain ==
    (C16_ValidCall /\ op.level > 1) =>
        /\ ret = Return(None)
        /\ agent.kind = "PragmaticListener_obs_n"
        /\ agent.obj.level = op.level
        /\ C17_chain(agent.obj)

(***************************************************************************)
(* Claims about the construction of PragmaticSpeaker_obs                   *)
(***************************************************************************)
\* C18: a PragmaticSpeaker_obs constructed with omega = coop has psi = inf
\* afterwards, whatever psi was requested; the constructor warns exactly when
\* the requested psi of a cooperative speaker was not inf; with omega = strat
\* the stored psi is the requested one
C18_CoopForcesInf ==
    /\ op.name = "PragmaticSpeaker_obs.__init__" =>
          /\ (warned # None) <=> (op.omega = "coop" /\ op.psi # "inf")
          /\ agent # NoObject =>
                /\ agent.obj.omega = op.omega
                /\ agent.obj.psi = IF op.omega = "coop" THEN "inf" ELSE op.psi
    /\ (agent.kind = "PragmaticSpeaker_obs" /\ agent.obj.omega = "coop") =>
          agent.obj.psi = "inf"

\* a cooperative speaker was requested with psi = pers+ and built with
\* psi = inf and a warning, and a strategic one was built with psi = pers+
C18_Witness ==
    /\ op.name = "PragmaticSpeaker_obs.__init__"
    /\ agent.kind = "PragmaticSpeaker_obs"
    /\ op.psi = "pers+"
    /\ \/ op.omega = "coop" /\ agent.obj.psi = "inf" /\ warned # None
       \/ op.omega = "strat" /\ agent.obj.psi = "pers+" /\ warned = None

(***************************************************************************)
(* Claims about the outcome list                                           *)
(***************************************************************************)
RECURSIVE C19_Sum(_)
\* the sum of a tuple of integers
C19_Sum(t) == IF t = <<>> THEN 0 ELSE Head(t) + C19_Sum(Tail(t))

\* C19: the outcome list of a World(n, m) holds exactly the tuples of m + 1
\* non-negative integers that sum to n, each exactly once, C(n + m, m) tuples
\* in total
C19_StarsAndBars ==
    LET out == world.possible_outcomes
    IN /\ SeqToSet(out) = {t \in [1..(world.m + 1) -> 0..world.n] : C19_Sum(t) = world.n}
       /\ \A i, j \in DOMAIN out : i # j => out[i] # out[j]
       /\ Len(out) = Binom(world.n + world.m, world.m)

\* the World with one experiment of two trials was built: its three outcomes
\* are 0, 1 and 2 successes
C19_Witness ==
    /\ world.n = 1 /\ world.m = 2
    /\ Len(world.possible_outcomes) = 3
    /\ SeqToSet(world.possible_outcomes) = {<<1, 0, 0>>, <<0, 1, 0>>, <<0, 0, 1>>}

(***************************************************************************)
(* Claims about unknown observations and utterances                        *)
(***************************************************************************)
\* the call made by a step is update_and_speak with a tuple outside the
\* World's outcomes, or listen_and_update with a string outside its utterances
C20_UnknownInput ==
    \/ /\ op'.name \in {"LiteralSpeaker.update_and_speak",
                        "PragmaticSpeaker_obs.update_and_speak"}
       /\ op'.observation \notin observations(world)
    \/ /\ op'.name = "LiteralListener.listen_and_update"
       /\ op'.utterance \notin utterances(world)

\* C20: update_and_speak called with a tuple that is not an outcome of the
\* World (LiteralSpeaker, PragmaticSpeaker_obs) and listen_and_update called
\* with a string that is not an utterance of the World (LiteralListener)
\* raise, return no utterance, and leave every belief and derived table of
\* the agent as it was
C20_UnknownRejected ==
    [][C20_UnknownInput => (ret' = Raise /\ agent'.obj = agent.obj)]_vars

\* a pragmatic speaker that updates its internal listener has rejected an
\* unknown observation in its second call
C20_Witness ==
    /\ agent.kind = "PragmaticSpeaker_obs" /\ agent.obj.update_internal
    /\ agent.round = 2 /\ ret = Raise
    /\ op.name = "PragmaticSpeaker_obs.update_and_speak"
    /\ op.observation \notin observations(world)

(***************************************************************************)
(* Claims about the theta argument of the sampling operations              *)
(***************************************************************************)
\* the call made by a step is a sampling operation whose theta is no grid value
C21_OffGrid ==
    /\ op'.name \in {"sample", "sample_run", "sample_multiple_runs"}
    /\ op'.theta \notin SeqToSet(world.theta_values)

\* C21 as stated: every sampling operation (sample, sample_run,
\* sample_multiple_runs) given a theta that is not a grid value raises an
\* error and draws nothing
C21_AllReject ==
    [][C21_OffGrid => (ret' = Raise /\ world' = world)]_vars

\* C21 as amended: sample given a theta that is not a grid value raises and
\* draws nothing, and an outcome sample returns has non-zero probability at
\* the requested theta; sample_run and sample_multiple_runs given such a
\* theta warn and sample at the closest grid theta, which they report
C21_SampleRejects ==
    [][/\ (C21_OffGrid /\ op'.name = "sample") =>
             (ret' = Raise /\ world' = world /\ warned' = None)
       /\ (op'.name = "sample" /\ ret'.status = "ok") =>
             \E t \in ThetaIdx :
                /\ world.theta_values[t] = op'.theta
                /\ world.obs_log_likelihood_theta[ret'.value][t] # RZero
       /\ (C21_OffGrid /\ op'.name = "sample_run") =>
             /\ warned' # None /\ ret'.status = "ok"
             /\ ret'.value.theta = world.theta_values[closest_theta_idx(world, op'.theta)]
       /\ (C21_OffGrid /\ op'.name = "sample_multiple_runs") =>
             /\ warned' # None /\ ret'.status = "ok"
             /\ \A run_id \in DOMAIN ret'.value :
                   ret'.value[run_id].theta =
                       world.theta_values[closest_theta_idx(world, op'.theta)]
      ]_vars

\* sample was called with a theta off the grid on a World that holds a
\* cached generator, and raised
C21_Witness ==
    /\ op.name = "sample"
    /\ op.theta \notin SeqToSet(world.theta_values)
    /\ world.has_cached_rng
    /\ ret = Raise

(***************************************************************************)
(* Claims about the theta grid of a World                                  *)
(***************************************************************************)
\* the array a is strictly increasing
C22_Increasing(a) == \A i \in 1..(Len(a) - 1) : FloatLess(a[i], a[i + 1])

\* C22: construction fails when the supplied theta values are not in
\* increasing order, contain a duplicate or contain a value outside [0,1];
\* when it succeeds the stored grid is strictly increasing, has no two
\* values equal after rounding to 10 decimals, and lies within [0,1]
C22_ThetaGrid ==
    op.name = "World._validate_theta_values" =>
       /\ (\/ ~C22_Increasing(op.theta_values)
           \/ \E i \in 1..Len(op.theta_values) :
                 ~in_unit_interval(op.theta_values[i])) => ret = Raise
       /\ ret.status = "ok" =>
             /\ C22_Increasing(ret.value)
             /\ \A i, j \in 1..Len(ret.value) :
                   i # j => np_round(ret.value[i]) # np_round(ret.value[j])
             /\ \A i \in 1..Len(ret.value) : in_unit_interval(ret.value[i])

\* two supplied values that differ below the tenth decimal were accepted and
\* collapsed into one grid value
C22_Witness ==
    /\ op.name = "World._validate_theta_values"
    /\ ret.status = "ok"
    /\ Len(op.theta_values) = 2 /\ Len(ret.value) = 1
    /\ warned = "rounded theta values are duplicating"

(***************************************************************************)
(* Claims about end-to-end scenario A                                      *)
(***************************************************************************)
\* the step is the update_and_speak of the scenario's tuple
C23_Call == op'.name = "LiteralSpeaker.update_and_speak" /\ op'.observation = ScenarioTuple

\* the step completed, multiplied the belief by the likelihood of 8 successes
\* and returned an utterance true of the tuple
C23_Accepted ==
    /\ ret'.status = "ok"
    /\ agent'.obj.un_current_log_belief =
          [t \in ThetaIdx |-> RMul(agent.obj.un_current_log_belief[t],
                                   world.suc_log_likelihood_theta[8][t])]
    /\ world.utterance_truth[ret'.value][ScenarioTuple] = 1

\* C23 as stated: in World(n=1, m=4) update_and_speak accepts the tuple
\* (0,1,2,1,0), updates the belief with the likelihood of 8 successes and
\* returns an utterance true of the tuple
C23_ScenarioA ==
    [][(C23_Call /\ world.n = 1 /\ world.m = 4) => C23_Accepted]_vars

\* C23 as amended: in World(n=4, m=4) update_and_speak accepts the tuple
\* (0,1,2,1,0), updates the belief with the likelihood of 8 successes and
\* returns an utterance true of the tuple; in World(n=1, m=4), whose outcomes
\* sum to 1, the tuple is no observation and the call raises, leaving the
\* speaker as it was
C23_ScenarioA_n4 ==
    [][/\ (C23_Call /\ world.n = 4 /\ world.m = 4) => C23_Accepted
       /\ (C23_Call /\ world.n = 1 /\ world.m = 4) =>
             (ret' = Raise /\ agent'.obj = agent.obj)]_vars

\* a speaker with a uniform prior in World(n=4, m=4) returned an utterance
\* for the tuple, and believes theta = 1/2 with certainty afterwards
C23_Witness ==
    /\ world.n = 4 /\ world.m = 4
    /\ op.name = "LiteralSpeaker.update_and_speak" /\ op.observation = ScenarioTuple
    /\ ret.status = "ok"
    /\ world.utterance_truth[ret.value][ScenarioTuple] = 1
    /\ agent.obj.un_current_log_belief[1] = RZero
    /\ agent.obj.un_current_log_belief[2] # RZero

(***************************************************************************)
(* Claims about the truth table                                            *)
(***************************************************************************)
\* the reference semantics of a quantifier: q holds of count c over N items
C24_holds(q, c, N) ==
    CASE q = "all" -> c = N
      [] q = "most" -> 2 * c > N
      [] q = "some" -> c >= 1
      [] q = "no" -> c = 0

\* the number of sub-trials with property p in an experiment of j successes
C24_with_property(p, j, m) == IF p = "successful" THEN j ELSE m - j

RECURSIVE C24_experiments(_, _)
\* the number of experiments of the outcome o whose success count is in J
C24_experiments(o, J) ==
    IF J = {} THEN 0
    ELSE LET j == CHOOSE x \in J : TRUE
         IN o[j + 1] + C24_experiments(o, J \ {j})

\* the utterance u is true of the outcome o under the reference semantics
C24_reference(w, u, o) ==
    LET t == UtterTokens(w.n, u)
    IN IF w.n = 1
       THEN LET j == CHOOSE x \in 0..w.m : o[x + 1] = 1
            IN C24_holds(t[2], C24_with_property(t[3], j, w.m), w.m)
       ELSE C24_holds(t[1],
                C24_experiments(o, {j \in 0..w.m :
                    C24_holds(t[2], C24_with_property(t[3], j, w.m), w.m)}),
                w.n)

\* C24: every entry of the truth table is 0 or 1 and is 1 exactly when the
\* utterance is true of the outcome under the reference quantifier semantics
C24_TruthTable ==
    \A u \in utterances(world), o \in observations(world) :
        /\ world.utterance_truth[u][o] \in {0, 1}
        /\ world.utterance_truth[u][o] = 1 <=> C24_reference(world, u, o)

\* the table of a World with several experiments was read, and its outer
\* quantifier decides an entry: "most,all,successful" is false of an outcome
\* of which "some,all,successful" is true
C24_Witness ==
    /\ world.n > 1
    /\ op.name = "utterances"
    /\ \E o \in observations(world) :
          /\ world.utterance_truth["most,all,successful"][o] = 0
          /\ world.utterance_truth["some,all,successful"][o] = 1

(***************************************************************************)
(* Claims about the likelihood tables at the ends of the theta grid        *)
(***************************************************************************)
\* the outcome in which all n experiments have j successes
C25_all_in(w, j) == [i \in 1..(w.m + 1) |-> IF i = j + 1 THEN w.n ELSE 0]

\* the tables of w put all mass on one outcome at theta = 0 and theta = 1
\* and none of their entries is zero in between
C25_Tables(w) ==
    \A t \in ThetaIdx :
        /\ w.theta_values[t] = RZero =>
              /\ \A o \in observations(w) : w.obs_log_likelihood_theta[o][t] =
                                               IF o = C25_all_in(w, 0) THEN ROne ELSE RZero
              /\ \A s \in 0..(w.n * w.m) : w.suc_log_likelihood_theta[s][t] =
                                               IF s = 0 THEN ROne ELSE RZero
        /\ w.theta_values[t] = ROne =>
              /\ \A o \in observations(w) : w.obs_log_likelihood_theta[o][t] =
                                               IF o = C25_all_in(w, w.m) THEN ROne ELSE RZero
              /\ \A s \in 0..(w.n * w.m) : w.suc_log_likelihood_theta[s][t] =
                                               IF s = w.n * w.m THEN ROne ELSE RZero
        /\ (RLess(RZero, w.theta_values[t]) /\ RLess(w.theta_values[t], ROne)) =>
              /\ \A o \in observations(w) : w.obs_log_likelihood_theta[o][t] # RZero
              /\ \A s \in 0..(w.n * w.m) : w.suc_log_likelihood_theta[s][t] # RZero

\* C25: at theta = 0 the observation table gives probability 1 to
\* (n,0,...,0) and the success table to 0 successes, at theta = 1 to
\* (0,...,0,n) and to n*m successes, and 0 to everything else; at every grid
\* theta in between no outcome and no success count has probability 0; and
\* sample(0) returns only (n,0,...,0), sample(1) only (0,...,0,n)
C25_Boundary ==
    [][/\ C25_Tables(world)
       /\ (op'.name = "sample" /\ ret'.status = "ok" /\ op'.theta = RZero) =>
             ret'.value = C25_all_in(world, 0)
       /\ (op'.name = "sample" /\ ret'.status = "ok" /\ op'.theta = ROne) =>
             ret'.value = C25_all_in(world, world.m)]_vars

\* sample(1) returned (0,...,0,n) in a World of several experiments
C25_Witness ==
    /\ world.n > 1
    /\ op.name = "sample" /\ op.theta = ROne
    /\ ret = Return(C25_all_in(world, world.m))

(***************************************************************************)
(* Claims about the belief of a PragmaticSpeaker_obs                       *)
(***************************************************************************)
RECURSIVE C26_fed(_, _)
\* the LiteralSpeaker self after update_and_speak on each of the observations
C26_fed(self, obs_seq) ==
    IF obs_seq = <<>> THEN self
    ELSE C26_fed(LiteralSpeaker_update_and_speak(self, world, Head(obs_seq)).obj, Tail(obs_seq))

RECURSIVE C26_by_counts(_, _)
\* the belief b times the likelihood of the success count of every observation
\* of the World in the sequence
C26_by_counts(b, obs_seq) ==
    IF obs_seq = <<>> THEN b
    ELSE IF Head(obs_seq) \notin observations(world) THEN C26_by_counts(b, Tail(obs_seq))
    ELSE C26_by_counts(
             [t \in ThetaIdx |->
                 RMul(b[t], world.suc_log_likelihood_theta[successes(Head(obs_seq), world.m)][t])],
             Tail(obs_seq))

\* C26: the belief a PragmaticSpeaker_obs reports after update_and_speak on a
\* sequence of observations is the belief of a LiteralSpeaker with the same
\* prior fed the same observations, in this and in every other order, and
\* is the prior times the likelihoods of the success counts observed
C26_BeliefAsLiteral ==
    (agent.kind = "PragmaticSpeaker_obs" /\ sim.kind = "LiteralSpeaker") =>
       /\ agent_belief(agent) = current_belief_theta(sim.obj.un_current_log_belief)
       /\ agent.obj.literal_speaker.un_current_log_belief = sim.obj.un_current_log_belief
       /\ \A p \in Permutations(1..Len(sim.fed)) :
             C26_fed(sim.prior, [i \in 1..Len(sim.fed) |-> sim.fed[p[i]]]).un_current_log_belief
                = agent.obj.literal_speaker.un_current_log_belief
       /\ C26_by_counts(sim.prior.un_current_log_belief, sim.fed)
             = agent.obj.literal_speaker.un_current_log_belief

\* a strategic speaker that updates its internal listener was fed two
\* observations with different success counts and still holds more than one
\* theta possible
C26_Witness ==
    /\ agent.kind = "PragmaticSpeaker_obs" /\ sim.kind = "LiteralSpeaker"
    /\ agent.obj.omega = "strat" /\ agent.obj.update_internal
    /\ Len(sim.fed) = 2
    /\ sim.fed[1] \in observations(world) /\ sim.fed[2] \in observations(world)
    /\ successes(sim.fed[1], world.m) # successes(sim.fed[2], world.m)
    /\ ret.status = "ok"
    /\ agent.obj.literal_speaker.un_current_log_belief # sim.prior.un_current_log_belief
    /\ \E t \in ThetaIdx : agent.obj.literal_speaker.un_current_log_belief[t] # RZero

(***************************************************************************)
(* Claims about update_internal                                            *)
(***************************************************************************)
\* the step is an update_and_speak of a PragmaticSpeaker_obs
C27_Call == agent.kind = "PragmaticSpeaker_obs" /\ op'.name = "PragmaticSpeaker_obs.update_and_speak"

\* C27: with update_internal unset, update_and_speak leaves the embedded
\* literal listener (belief and posterior table), the utility and the
\* utterance table as they were; with update_internal set, a call that
\* returns u has advanced the embedded listener by exactly one
\* listen_and_update(u), and u had non-zero probability for the observation
\* in the table as it stood before the call
C27_UpdateInternal ==
    [][/\ (C27_Call /\ ~agent.obj.update_internal) =>
             /\ agent'.obj.literal_listener = agent.obj.literal_listener
             /\ agent'.obj.utility = agent.obj.utility
             /\ agent'.obj.utterance_log_prob_obs = agent.obj.utterance_log_prob_obs
       /\ (C27_Call /\ agent.obj.update_internal /\ ret'.status = "ok") =>
             /\ agent'.obj.literal_listener =
                   LiteralListener_listen_and_update(agent.obj.literal_listener, world,
                                                     ret'.value).obj
             /\ agent.obj.utterance_log_prob_obs[ret'.value][op'.observation] # RZero
      ]_vars

\* a speaker with update_internal set returned from its second round, and
\* its listener's belief, unlike every prior, gives two thetas different
\* non-zero weights
C27_Witness ==
    /\ agent.kind = "PragmaticSpeaker_obs" /\ agent.obj.update_internal
    /\ agent.round = 2
    /\ op.name = "PragmaticSpeaker_obs.update_and_speak" /\ ret.status = "ok"
    /\ \E t1, t2 \in ThetaIdx :
          /\ agent.obj.literal_listener.un_current_log_belief[t1] # RZero
          /\ agent.obj.literal_listener.un_current_log_belief[t2] # RZero
          /\ agent.obj.literal_listener.un_current_log_belief[t1]
                # agent.obj.literal_listener.un_current_log_belief[t2]

(***************************************************************************)
(* Claims about the belief of a LiteralListener                            *)
(***************************************************************************)
RECURSIVE C28_listened(_, _)
\* the LiteralListener self after listen_and_update on each of the utterances
C28_listened(self, utt_seq) ==
    IF utt_seq = <<>> THEN self
    ELSE C28_listened(LiteralListener_listen_and_update(self, world, Head(utt_seq)).obj,
                      Tail(utt_seq))

RECURSIVE C28_sum(_, _, _)
\* the belief b plus the rows of the likelihood table of the utterances
C28_sum(b, likelihood, utt_seq) ==
    IF utt_seq = <<>> THEN b
    ELSE C28_sum([t \in ThetaIdx |-> RMul(b[t], likelihood[Head(utt_seq)][t])],
                 likelihood, Tail(utt_seq))

\* the listener a with the record s: the likelihood table is the one of
\* construction, and the belief is the prior plus the likelihood rows of the
\* utterances heard, and is reached in every order of them
C28_closed(a, s) ==
    /\ a.obj.utterance_log_likelihood_theta = s.constructed.utterance_log_likelihood_theta
    /\ a.obj.un_current_log_belief =
          C28_sum(s.constructed.un_current_log_belief,
                  s.constructed.utterance_log_likelihood_theta, s.heard)
    /\ \A p \in Permutations(1..Len(s.heard)) :
          C28_listened(s.constructed,
                       [i \in 1..Len(s.heard) |-> s.heard[p[i]]]).un_current_log_belief
             = a.obj.un_current_log_belief

\* C28: listen_and_update(u) replaces the belief by the column for u of the
\* posterior table as it stood before the call, which is the old belief plus
\* the row for u of a likelihood table that never changes; after any
\* sequence of utterances the belief is the prior plus the likelihood rows
\* of the utterances heard, whatever their order
C28_BeliefIsSum ==
    [][(agent'.kind = "LiteralListener" /\ sim'.kind = "heard") =>
          /\ C28_closed(agent', sim')
          /\ (op'.name = "LiteralListener.listen_and_update" /\ ret'.status = "ok") =>
                \A t \in ThetaIdx :
                   /\ agent'.obj.un_current_log_belief[t]
                         = agent.obj.theta_log_post_utterance[t][op'.utterance]
                   /\ agent'.obj.un_current_log_belief[t]
                         = RMul(agent.obj.un_current_log_belief[t],
                                agent.obj.utterance_log_likelihood_theta[op'.utterance][t])
      ]_vars

\* a listener heard two utterances with different likelihood rows and still
\* holds some theta possible
C28_Witness ==
    /\ agent.kind = "LiteralListener" /\ sim.kind = "heard"
    /\ Len(sim.heard) = 2
    /\ sim.constructed.utterance_log_likelihood_theta[sim.heard[1]]
          # sim.constructed.utterance_log_likelihood_theta[sim.heard[2]]
    /\ \E t \in ThetaIdx : agent.obj.un_current_log_belief[t] # RZero
    /\ agent.obj.un_current_log_belief # sim.constructed.un_current_log_belief

(***************************************************************************)
(* Claims about listen_and_update of a pragmatic listener                  *)
(***************************************************************************)
\* the step is listen_and_update of a known utterance on a pragmatic listener
C29_Call ==
    /\ agent.kind = "PragmaticListener_obs_n"
    /\ op'.name = "PragmaticListener_obs_n.listen_and_update"
    /\ op'.utterance \in utterances(world)

\* the embedded speaker after of a level-1 listener is the speaker before
\* with its internal listener advanced once by the utterance and its tables
\* recomputed
C29_advanced(before, after, utterance) ==
    /\ after.literal_listener =
          LiteralListener_listen_and_update(before.literal_listener, world, utterance).obj
    /\ after.utterance_log_prob_obs =
          PragmaticSpeaker_compute_utterance_log_prob_obs(after, world, after.alpha).table

\* C29: a level-1 listener constructed by a valid call holds one speaker per
\* (psi, alpha) pair; its listen_and_update(u) sets the joint belief to the
\* slice for u of the posterior table computed before the call; only if
\* update_internal is set it advances the internal listener of every
\* embedded speaker by u once and recomputes every utterance table, and
\* otherwise changes no speaker; and it rebuilds the posterior table from
\* the new joint belief and the current likelihoods
C29_ListenAndUpdate ==
    [][/\ (C16_ValidCall' /\ op'.level = 1) =>
             /\ ret' = Return(None)
             /\ DOMAIN agent'.obj.pragmatic_speakers = speaker_keys(C16_psi_vals', C16_alpha_vals')
       /\ C29_Call =>
             /\ ret' = Return(None)
             /\ agent'.obj.un_current_log_belief_theta_psi_alpha_joint =
                   agent.obj.theta_psi_alpha_log_post_utterance[op'.utterance]
             /\ \A k \in DOMAIN agent.obj.pragmatic_speakers :
                   IF agent.obj.update_internal
                   THEN C29_advanced(agent.obj.pragmatic_speakers[k],
                                     agent'.obj.pragmatic_speakers[k], op'.utterance)
                   ELSE agent'.obj.pragmatic_speakers[k] = agent.obj.pragmatic_speakers[k]
             /\ ~agent.obj.update_internal =>
                   agent'.obj.pragmatic_speakers = agent.obj.pragmatic_speakers
             /\ agent'.obj.theta_psi_alpha_log_post_utterance =
                   compute_theta_psi_alpha_log_post_utterance(
                       agent'.obj.utterance_log_likelihood_theta_psi_alpha,
                       agent'.obj.un_current_log_belief_theta_psi_alpha_joint, world,
                       agent.obj.psi_vals, agent.obj.alpha_vals)
      ]_vars

(***************************************************************************)
(* Claims about the log-likelihoods recorded by the generator              *)
(***************************************************************************)
\* C30: for every utterance sequence the generator produces under a speaker
\* configuration and every T in Ts, the recorded log_lik_true_speaker[T] is
\* finite and equals log_likelihood_utt_seq of the first T observations and
\* utterances under the same configuration
C30_ReplayAgrees ==
    /\ sim.kind = "utt_record" =>
          \A T \in DOMAIN sim.log_lik_true_speaker : sim.log_lik_true_speaker[T] # RZero
    /\ fit.kind = "replayed" =>
          /\ ~fit.raised
          /\ fit.ll = sim.log_lik_true_speaker[fit.T]

\* the whole sequence of a pragmatic speaker that updates its internal
\* listener was replayed; the speaker said the same thing about the same
\* observation twice, with a different probability the second time
C30_Witness ==
    /\ fit.kind = "replayed" /\ fit.T = FitLen
    /\ sim.config.speaker_type = "pragmatic" /\ sim.config.update_internal
    /\ sim.obs_seq[1] = sim.obs_seq[2] /\ sim.utt_seq[1] = sim.utt_seq[2]
    /\ 1 \in DOMAIN sim.log_lik_true_speaker
    /\ fit.ll # RMul(sim.log_lik_true_speaker[1], sim.log_lik_true_speaker[1])

====
